---- MODULE Spec2Model ----
(***************************************************************************)
(* LEDController (patrickhirsh/LEDController): the Arduino firmware that   *)
(* drives a 112-pixel WS2812B strip from an IR remote and a serial audio   *)
(* stream.  The model follows the single-strip sketch                      *)
(* src/LEDController/LEDController.ino (lines 1-456) statement by          *)
(* statement; the two-strip sketch in the same file (lines 458-989) shares *)
(* IRHandler, setGlobalBrightness and the audio doubling, and adds         *)
(* sampleAudio.                                                            *)
(*                                                                         *)
(* One iteration of loop() is two steps: the IR poll (IRHandler, or no     *)
(* signal) and the effect dispatch.  pc says which of the two is next.     *)
(***************************************************************************)
EXTENDS Integers, Sequences, FiniteSets, TLC

VARIABLES
    pc,                   \* "poll": loop() is at irrecv.decode; "run": at the ledStatus test
    tick,                 \* completed iterations of loop()
    leds,                 \* CRGB leds[NUM_LEDS]
    audioIn,              \* byte audioIn
    ledMode,              \* byte ledMode
    ledStatus,            \* byte ledStatus
    ledBrightness,        \* byte ledBrightness
    ledBrightnessPreset,  \* byte ledBrightnessPreset
    dynamicHue,           \* CHSV dynamicHue
    results,              \* results.value decoded in this iteration, NoCode when decode() returned false
    serialIn,             \* the byte Serial.read() returned in this iteration, NoByte when none was read
    trace,                \* the buffer writes, clamp passes and FastLED.show() calls of this iteration, in order
    audioSample,          \* byte audioSample of the two-strip sketch
    statusAtPoll,         \* ledStatus as it was when this iteration of loop() began
    displayed,            \* the frame on the strip when this iteration began: the argument of the latest FastLED.show()
    audioSamples,         \* byte audioSamples[100] of the two-strip sketch
    received,             \* the arguments of the calls made so far to the function run on its own, latest first
    hueAtStart,           \* dynamicHue.hue before the first of these calls
    dynamicHueCycle,      \* byte dynamicHueCycle of the boot sketch
    loopI,                \* int i of the loop that is running, when loops run one iteration a step
    loopStrength,         \* int strength of the DynamicHueModifier call that is running
    callDepth,            \* the DynamicHueModifier calls that have not returned
    hueCall,              \* the last call of DynamicHueModifier: its strength, the channel steps it made, whether one wrapped
    rippled,              \* the buffer right after the two shift loops of this iteration's visualizer, <<>> when they did not run
    glowed,               \* the buffer this iteration's visualizer handed to setGlobalBrightness after its writes, <<>> when it wrote nothing
    ledsD,                \* CRGB ledsD[NUM_LEDS_DESK] of the two-strip sketch
    scrollingHue,         \* byte scrollingHue of the two-strip sketch
    visSpread,            \* float visSpread of the two-strip sketch, in units of 1/285 (.2 is 57, 1 is 285, s/5.7 is 50 s)
    accessed              \* the array elements this iteration's effect routine read or wrote, as <<array, index>>

vars == <<pc, tick, leds, audioIn, ledMode, ledStatus, ledBrightness,
          ledBrightnessPreset, dynamicHue, results, serialIn, trace, audioSample,
          statusAtPoll, displayed, audioSamples, received, hueAtStart, dynamicHueCycle,
          hueCall, rippled, glowed, loopI, loopStrength, callDepth, ledsD,
          scrollingHue, visSpread, accessed>>

\* the state that loop() of the single-strip sketch never assigns
otherVars == <<audioSamples, received, hueAtStart, dynamicHueCycle, hueCall,
               loopI, loopStrength, callDepth, ledsD, scrollingHue, visSpread,
               accessed>>

\* the record of the visualizer's passes over the buffer
passVars == <<rippled, glowed>>

\* the locals of the loops run one iteration a step
loopVars == <<loopI, loopStrength, callDepth>>

\* the desk strip of the two-strip sketch, and the record of the elements used
deskVars == <<ledsD, scrollingHue, visSpread, accessed>>

----------------------------------------------------------------------------
(* Bounds of the model *)

\* iterations of loop() a behaviour runs
MaxTicks == 2

\* iterations of loop() a behaviour of the arrows-only session runs
MaxArrowTicks == 6

\* calls of setGlobalBrightness in a row, in the specification of the clamp alone
MaxClamps == 2

\* calls of sampleAudio after the history buffer was filled, in the
\* specification of sampleAudio alone
MaxSamples == 2

\* calls of dynamicHueShift in a row, in the specification of the shifter alone
MaxShifts == 2

\* iterations of loop() after the stream's bytes, in the visualizer session
MaxVisTicks == 2

\* iterations of loop() a behaviour of the boot sketch runs
MaxBootTicks == 3

\* operations started in a behaviour that runs the loops one iteration a step
MaxCalls == 2

\* iterations of loop() after a visualizer session, with digit 0 on the remote
MaxRedTicks == 2

\* iterations of loop() of the two-strip sketch
MaxStripTicks == 2

----------------------------------------------------------------------------
(* Program constants *)

NUM_LEDS == 112
NUM_LEDS_DESK == 91
BRIGHTNESS_0 == 5
BRIGHTNESS_1 == 20
BRIGHTNESS_2 == 65
BRIGHTNESS_3 == 127
BRIGHTNESS_4 == 255
GPU_SCALE_FACTOR == 5

Pixels == 0 .. (NUM_LEDS - 1)
Byte == 0 .. 255

NoCode == <<>>
NoByte == -1

Min(a, b) == IF a < b THEN a ELSE b

\* CRGB(r, g, b)
CRGB(r, g, b) == [red |-> r, green |-> g, blue |-> b]
\* CHSV(h, s, v)
CHSV(h, s, v) == [hue |-> h, sat |-> s, val |-> v]

Black == [i \in Pixels |-> CRGB(0, 0, 0)]

\* the pixels of the desk strip of the two-strip sketch
DeskPixels == 0 .. (NUM_LEDS_DESK - 1)

BlackDesk == [i \in DeskPixels |-> CRGB(0, 0, 0)]

----------------------------------------------------------------------------
(* The remote's codes: the case labels of IRHandler's switch *)

\* results.value is an unsigned long: a 32-bit value, written here as its high
\* and low 16-bit words (0xFFA25D is W(255, 41565))
W(hi, lo) == <<hi, lo>>

\* (variant) the bare-break list without the two volume keys
IgnoredCodesNoVolume ==
    {W(65535, 65535), W(255, 41565), W(255, 57885), W(255, 39015), W(255, 45135),
     W(255, 49725), W(255, 8925), W(255, 765)}

\* case 0xFFFFFFFF, 0xFFA25D, 0xFFE21D, 0xFF9867, 0xFFB04F, 0xFFC23D, 0xFF22DD,
\* 0xFF02FD, 0xFF629D, 0xFFA857: break;
IgnoredCodes ==
    {W(65535, 65535), W(255, 41565), W(255, 57885), W(255, 39015), W(255, 45135),
     W(255, 49725), W(255, 8925), W(255, 765), W(255, 25245), W(255, 43095)}

\* case 0xFF906F: adjustGlobalBrightness(1)
ArrowUp == W(255, 36975)
\* case 0xFFE01F: adjustGlobalBrightness(0)
ArrowDown == W(255, 57375)

\* case 0xFF6897 .. 0xFF52AD: ledMode = N; ledStatus = 1   (N = 0 .. 9)
ModeCode ==
    [n \in 0 .. 9 |->
        CASE n = 0 -> W(255, 26775)
          [] n = 1 -> W(255, 12495)
          [] n = 2 -> W(255, 6375)
          [] n = 3 -> W(255, 31365)
          [] n = 4 -> W(255, 4335)
          [] n = 5 -> W(255, 14535)
          [] n = 6 -> W(255, 23205)
          [] n = 7 -> W(255, 17085)
          [] n = 8 -> W(255, 19125)
          [] n = 9 -> W(255, 21165)]

ModeCodes == {ModeCode[n] : n \in 0 .. 9}

\* (variant) every digit selecting the mode after its own
ModeOfShifted(code) == ((CHOOSE n \in 0 .. 9 : ModeCode[n] = code) + 1) % 10

\* the N of the case label that matches
ModeOf(code) == CHOOSE n \in 0 .. 9 : ModeCode[n] = code

TableCodes == IgnoredCodes \cup {ArrowUp, ArrowDown} \cup ModeCodes

\* decoded values that are no case label: a zero, and the codes of digit 0
\* and of arrow up with their lowest bit flipped by the blocked interrupts
GarbledCodes == {W(0, 0), W(255, 26774), W(255, 36974)}

\* the remote's 22 keys, as the comments of the switch name them: repeat,
\* power, func/stop, EQ, ST/REPT, skip forward, skip back, play/pause, volume
\* up, volume down, arrow up, arrow down, 0 .. 9
RemoteKeys ==
    {W(65535, 65535), W(255, 41565), W(255, 57885), W(255, 39015), W(255, 45135),
     W(255, 49725), W(255, 8925), W(255, 765), W(255, 25245), W(255, 43095),
     W(255, 36975), W(255, 57375),
     W(255, 26775), W(255, 12495), W(255, 6375), W(255, 31365), W(255, 4335),
     W(255, 14535), W(255, 23205), W(255, 17085), W(255, 19125), W(255, 21165)}

\* what irrecv.decode can hand to IRHandler
Codes == RemoteKeys \cup GarbledCodes

----------------------------------------------------------------------------
(* Events of the trace *)

\* a buffer write ("write", "clear") or a clamp pass ("clamp")
Ev(op) == [op |-> op, frame |-> <<>>]

\* a hardware commit: FastLED.show() with the buffer it sends to the strip
Show(buf) == [op |-> "show", frame |-> buf]

\* the frames FastLED.show() sent to the strip, in order
Shows(tr) == SelectSeq(tr, LAMBDA e : e.op = "show")

\* the frame on the strip after the events tr, frame being on it before them
Latest(tr, frame) ==
    IF Shows(tr) = <<>> THEN frame ELSE Shows(tr)[Len(Shows(tr))].frame

----------------------------------------------------------------------------
(* setGlobalBrightness, lines 358-375 *)

\* int arithmetic of the ATmega328P: byte operands are promoted to a 16-bit int
Int16(x) == ((x + 32768) % 65536) - 32768

\* assignment to a uint8_t channel keeps the low eight bits
ToByte(x) == x % 256

\* if (c > ledBrightness) {c = ledBrightness;}
ClampBack(c, lb) == IF c > lb THEN lb ELSE c

\* (variant) the product kept in eight bits, as a byte-typed temporary would
GpuCeiling8(lb) == ToByte(lb * GPU_SCALE_FACTOR)

\* ledBrightness*GPU_SCALE_FACTOR, as the comparison and the assignment compute it
GpuCeiling(lb) == Int16(lb * GPU_SCALE_FACTOR)

\* if (c > ledBrightness*GPU_SCALE_FACTOR) {c = ledBrightness*GPU_SCALE_FACTOR;}
ClampGpu(c, lb) == IF c > GpuCeiling(lb) THEN ToByte(GpuCeiling(lb)) ELSE c

\* the two loops of setGlobalBrightness: 0..99 against ledBrightness,
\* 100..NUM_LEDS-1 against ledBrightness*GPU_SCALE_FACTOR
SetGlobalBrightness(buf, lb) ==
    [i \in Pixels |->
        IF i < 100
        THEN CRGB(ClampBack(buf[i].red, lb), ClampBack(buf[i].green, lb),
                  ClampBack(buf[i].blue, lb))
        ELSE CRGB(ClampGpu(buf[i].red, lb), ClampGpu(buf[i].green, lb),
                  ClampGpu(buf[i].blue, lb))]

----------------------------------------------------------------------------
(* off, lines 379-383 *)

\* (variant) off() without the FastLED.clear()
offNoClear(buf) == buf

\* the buffer after off(): FastLED.clear() zeroes every pixel
off(buf) == [i \in Pixels |-> CRGB(0, 0, 0)]

\* FastLED.clear(); FastLED.show();
OffTrace(buf) == <<Ev("clear"), Show(off(buf))>>

----------------------------------------------------------------------------
(* adjustGlobalBrightness, lines 281-354 *)

\* lines 284-297: the preset after the step
StepPreset(p, upOrDown) ==
    IF upOrDown = 0 THEN (IF p > 0 THEN p - 1 ELSE 0)
    ELSE IF upOrDown = 1 THEN (IF p < 4 THEN p + 1 ELSE 4)
    ELSE p

\* (variant) each branch assigning the next preset's ceiling
PresetCeilingShifted(p) ==
    CASE p = 0 -> BRIGHTNESS_1
      [] p = 1 -> BRIGHTNESS_2
      [] p = 2 -> BRIGHTNESS_3
      [] p = 3 -> BRIGHTNESS_4
      [] OTHER -> BRIGHTNESS_4

\* lines 300-346: ledBrightness = BRIGHTNESS_<preset>
PresetCeiling(p) ==
    CASE p = 0 -> BRIGHTNESS_0
      [] p = 1 -> BRIGHTNESS_1
      [] p = 2 -> BRIGHTNESS_2
      [] p = 3 -> BRIGHTNESS_3
      [] p = 4 -> BRIGHTNESS_4

\* the pixels each branch writes before its FastLED.show()
PreviewZone(p) ==
    CASE p = 0 -> 100 .. (NUM_LEDS - 1)
      [] p = 1 -> 75 .. (NUM_LEDS - 1)
      [] p = 2 -> 50 .. (NUM_LEDS - 1)
      [] p = 3 -> (50 .. (NUM_LEDS - 1)) \cup (0 .. 24)
      [] p = 4 -> 0 .. (NUM_LEDS - 1)

\* leds[i] = CRGB(BRIGHTNESS_p, BRIGHTNESS_p, BRIGHTNESS_p) over the zone
Preview(buf, p) ==
    [i \in Pixels |->
        IF i \in PreviewZone(p)
        THEN CRGB(PresetCeiling(p), PresetCeiling(p), PresetCeiling(p))
        ELSE buf[i]]

\* the preview write, FastLED.show(), delay(200), off()
AdjustTrace(buf, p) ==
    <<Ev("write"), Show(Preview(buf, p))>> \o OffTrace(Preview(buf, p))

\* adjustGlobalBrightness(upOrDown); ledMode and ledStatus are not assigned
adjustGlobalBrightness(upOrDown) ==
    LET p == StepPreset(ledBrightnessPreset, upOrDown) IN
    /\ ledBrightnessPreset' = p
    /\ ledBrightness' = PresetCeiling(p)
    /\ leds' = off(Preview(leds, p))
    /\ trace' = AdjustTrace(leds, p)
    /\ UNCHANGED <<ledMode, ledStatus>>

----------------------------------------------------------------------------
(* FastLED's pixel arithmetic, as the sketch uses it *)

\* qadd8: CRGB::operator+= adds each channel and saturates at 255
qadd8(a, b) == IF a + b > 255 THEN 255 ELSE a + b

\* qsub8: CRGB::operator-= subtracts each channel and saturates at 0
qsub8(a, b) == IF a - b < 0 THEN 0 ELSE a - b

\* scale8 (FASTLED_SCALE8_FIXED): (i * (1 + scale)) >> 8
scale8(i, scale) == (i * (1 + scale)) \div 256

\* scale8_video: ((i * scale) >> 8) + ((i && scale) ? 1 : 0)
scale8_video(i, scale) ==
    ((i * scale) \div 256) + (IF i # 0 /\ scale # 0 THEN 1 ELSE 0)

\* the hue section of hsv2rgb_rainbow: full saturation, full value
RainbowHue(hue) ==
    LET offset8 == (hue % 32) * 8
        third == scale8(offset8, 85)
        twothirds == scale8(offset8, 170)
        section == hue \div 32
    IN  CASE section = 0 -> CRGB(255 - third, third, 0)
          [] section = 1 -> CRGB(171, 85 + third, 0)
          [] section = 2 -> CRGB(171 - twothirds, 170 + third, 0)
          [] section = 3 -> CRGB(0, 255 - third, third)
          [] section = 4 -> CRGB(0, 171 - twothirds, 85 + twothirds)
          [] section = 5 -> CRGB(third, 0, 255 - third)
          [] section = 6 -> CRGB(85 + third, 0, 171 - third)
          [] section = 7 -> CRGB(170 + third, 0, 85 - third)

\* one channel scaled by sat or val: if (c) c = scale8(c, scale)
NScaleChannel(c, scale) == IF c # 0 THEN scale8(c, scale) ELSE 0

\* the desaturation step of hsv2rgb_rainbow (sat != 255)
Desaturate(c, sat) ==
    IF sat = 255 THEN c
    ELSE IF sat = 0 THEN 255
    ELSE ToByte(NScaleChannel(c, sat) + scale8(255 - sat, 255 - sat))

\* the value step of hsv2rgb_rainbow (val != 255)
Dim(c, val) ==
    IF val = 255 THEN c
    ELSE IF scale8_video(val, val) = 0 THEN 0
    ELSE NScaleChannel(c, scale8_video(val, val))

\* leds[37] = dynamicHue: CRGB's assignment from a CHSV runs hsv2rgb_rainbow
hsv2rgb_rainbow(hsv) ==
    LET c == RainbowHue(hsv.hue) IN
    CRGB(Dim(Desaturate(c.red, hsv.sat), hsv.val),
         Dim(Desaturate(c.green, hsv.sat), hsv.val),
         Dim(Desaturate(c.blue, hsv.sat), hsv.val))

----------------------------------------------------------------------------
(* dynamicHueShift, lines 387-396 *)

RECURSIVE HueLoopSkip(_, _)
\* (variant) the test made after the increment: hue++; if (hue == 255) hue = 0;
HueLoopSkip(hue, i) ==
    IF hue \notin Byte \/ i <= 0 THEN hue
    ELSE IF i = 1 THEN (IF ToByte(hue + 1) = 255 THEN 0 ELSE ToByte(hue + 1))
    ELSE HueLoopSkip(HueLoopSkip(hue, i \div 2), i - (i \div 2))

RECURSIVE HueLoop(_, _)
\* for (int i = strength; i > 0; i--) { hue = (hue == 255) ? 0 : hue + 1 }
\* i iterations one after the other, none when i is not positive (the count
\* is halved so that the nesting stays shallow)
HueLoop(hue, i) ==
    IF hue \notin Byte \/ i <= 0 THEN hue
    ELSE IF i = 1 THEN (IF hue = 255 THEN 0 ELSE hue + 1)
    ELSE HueLoop(HueLoop(hue, i \div 2), i - (i \div 2))

\* (variant) the shifter stepping the saturation along with the hue
dynamicHueShiftAll(hsv, strength) ==
    [hsv EXCEPT !.hue = HueLoop(hsv.hue, strength),
                !.sat = HueLoop(hsv.sat, strength)]

dynamicHueShift(hsv, strength) == [hsv EXCEPT !.hue = HueLoop(hsv.hue, strength)]

----------------------------------------------------------------------------
(* The audio doubling *)

\* (variant) the doubling without the saturation test
ScaleAudioWrap(b) == ToByte(b * 2)

\* lines 147-150 and 194-197: if (audioIn*2 > 255) audioIn = 255; else audioIn *= 2;
ScaleAudio(b) == IF Int16(b * 2) > 255 THEN 255 ELSE ToByte(b * 2)

\* lines 914-915 of sampleAudio: if (rawAudio*2 > 255) {rawAudio = 255;} else {rawAudio *= 2;}
sampleAudioScale(rawAudio) ==
    IF Int16(rawAudio * 2) > 255 THEN 255 ELSE ToByte(rawAudio * 2)

----------------------------------------------------------------------------
(* The visualizers' buffer passes, lines 140-170 and 187-208 *)

RECURSIVE RippleLowBack(_, _)
\* (variant) the first shift loop counting downwards:
\* for (int i = 36; i >= 0; i--) leds[i] = leds[i+1];
RippleLowBack(buf, i) ==
    IF i < 37 /\ (i + 1) \in DOMAIN buf
    THEN RippleLowBack([buf EXCEPT ![36 - i] = buf[37 - i]], i + 1)
    ELSE buf

RECURSIVE RippleLow(_, _)
\* for (int i = 0; i < 37; i++) leds[i] = leds[i+1];
\* (one unfolding per iteration, on the buffer as the iterations before left
\* it; the index read is inside the array)
RippleLow(buf, i) ==
    IF i < 37 /\ (i + 1) \in DOMAIN buf
    THEN RippleLow([buf EXCEPT ![i] = buf[i + 1]], i + 1)
    ELSE buf

RECURSIVE RippleHigh(_, _)
\* for (int i = 74; i > 37; i--) leds[i] = leds[i-1];
RippleHigh(buf, i) ==
    IF i > 37 /\ (i - 1) \in DOMAIN buf
    THEN RippleHigh([buf EXCEPT ![i] = buf[i - 1]], i - 1)
    ELSE buf

Ripple(buf) == RippleHigh(RippleLow(buf, 0), 74)

\* (variant) the glow loop on the bare channel, as leds[i].red += a/5;
\* leds[i].red -= 8; would compute it
GlowWrap(buf, a) ==
    [i \in Pixels |->
        IF i >= 75 /\ i < 112
        THEN [buf[i] EXCEPT !.red = ToByte(ToByte(@ + (a \div 5)) - 8)]
        ELSE buf[i]]

\* for (int i = 75; i < 112; i++) { leds[i] += CRGB(a/5, 0, 0); leds[i] -= CRGB(8, 0, 0); }
Glow(buf, a) ==
    [i \in Pixels |->
        IF i >= 75 /\ i < 112
        THEN CRGB(qsub8(qadd8(buf[i].red, a \div 5), 8),
                  qsub8(qadd8(buf[i].green, 0), 0),
                  qsub8(qadd8(buf[i].blue, 0), 0))
        ELSE buf[i]]

\* (variant) the two divisors the other way round
HueStrengthSwapped(a) == IF a > 200 THEN a \div 70 ELSE a \div 15

\* the strength dynamicVisualizer passes to dynamicHueShift, lines 153-156
HueStrength(a) == IF a > 200 THEN a \div 15 ELSE a \div 70

----------------------------------------------------------------------------
(* Startup: the globals' initialisers, lines 44-57, and setup(), lines 65-81 *)

\* lines 570-571 of the two-strip sketch: audioSamples[i] = 0
NoSamples == [i \in 0 .. 99 |-> 0]

\* no call of DynamicHueModifier yet
NoCall == [strength |-> 0, steps |-> 0, wrapped |-> FALSE]

\* the state outside the single-strip sketch, at startup
OtherInit ==
    /\ audioSamples = NoSamples
    /\ received = <<>>
    /\ hueAtStart = 0
    /\ dynamicHueCycle = 0
    /\ hueCall = NoCall
    /\ loopI = 0
    /\ loopStrength = 0
    /\ callDepth = 0
    /\ ledsD = BlackDesk
    /\ scrollingHue = 0
    /\ visSpread = 0
    /\ accessed = {}

Init ==
    /\ pc = "poll"
    /\ tick = 0
    /\ leds = Black
    /\ audioIn = 0
    /\ ledMode = 0
    /\ ledStatus = 1
    /\ ledBrightness = 255
    /\ ledBrightnessPreset = 4
    /\ dynamicHue = CHSV(0, 255, 255)
    /\ results = NoCode
    /\ serialIn = NoByte
    /\ trace = <<>>
    /\ audioSample = 0
    /\ statusAtPoll = 1
    /\ displayed = Black
    /\ rippled = <<>>
    /\ glowed = <<>>
    /\ OtherInit

----------------------------------------------------------------------------
(* IRHandler, lines 235-269 *)

\* the effect of the switch on results.value
IRHandler(code) ==
    CASE code \in IgnoredCodes ->
            /\ trace' = <<>>
            /\ UNCHANGED <<leds, ledMode, ledStatus, ledBrightness, ledBrightnessPreset>>
      [] code = ArrowUp -> adjustGlobalBrightness(1)
      [] code = ArrowDown -> adjustGlobalBrightness(0)
      [] code \in ModeCodes ->
            /\ ledMode' = ModeOf(code)
            /\ ledStatus' = 1
            /\ trace' = <<>>
            /\ UNCHANGED <<leds, ledBrightness, ledBrightnessPreset>>
      [] OTHER ->
            \* default: off(); ledStatus = 0;
            /\ leds' = off(leds)
            /\ trace' = OffTrace(leds)
            /\ ledStatus' = 0
            /\ UNCHANGED <<ledMode, ledBrightness, ledBrightnessPreset>>

----------------------------------------------------------------------------
(* loop(), lines 89-109 *)

\* (variant) loop() with the effect dispatch ahead of the IR poll: the code is
\* handled as the last thing of the iteration
PollAfter(code) ==
    /\ pc = "poll"
    /\ IRHandler(code)
    /\ results' = code
    /\ serialIn' = NoByte
    /\ statusAtPoll' = ledStatus
    /\ displayed' = Latest(trace, displayed)
    /\ pc' = "poll"
    /\ tick' = tick + 1
    /\ rippled' = <<>>
    /\ glowed' = <<>>
    /\ UNCHANGED <<audioIn, dynamicHue, audioSample>>
    /\ UNCHANGED otherVars

\* if (irrecv.decode(&results)) { IRHandler(); irrecv.resume(); }
Poll(code) ==
    /\ pc = "poll"
    /\ IRHandler(code)
    /\ results' = code
    /\ serialIn' = NoByte
    /\ statusAtPoll' = ledStatus
    /\ displayed' = Latest(trace, displayed)
    /\ pc' = "run"
    /\ rippled' = <<>>
    /\ glowed' = <<>>
    /\ UNCHANGED <<tick, audioIn, dynamicHue, audioSample>>
    /\ UNCHANGED otherVars

\* irrecv.decode returned false
NoSignal ==
    /\ pc = "poll"
    /\ results' = NoCode
    /\ serialIn' = NoByte
    /\ statusAtPoll' = ledStatus
    /\ displayed' = Latest(trace, displayed)
    /\ trace' = <<>>
    /\ pc' = "run"
    /\ rippled' = <<>>
    /\ glowed' = <<>>
    /\ UNCHANGED <<tick, leds, audioIn, ledMode, ledStatus, ledBrightness,
                   ledBrightnessPreset, dynamicHue, audioSample>>
    /\ UNCHANGED otherVars

\* the end of one iteration of loop()
EndTick ==
    /\ pc' = "poll"
    /\ tick' = tick + 1
    /\ UNCHANGED <<results, audioSample, statusAtPoll, displayed>>
    /\ UNCHANGED otherVars

\* red(), lines 118-127
red ==
    /\ pc = "run" /\ ledStatus = 1 /\ ledMode = 0
    /\ LET rewrite == leds[0].red # 255
           buf == IF rewrite THEN [i \in Pixels |-> CRGB(255, 0, 0)] ELSE leds
           out == SetGlobalBrightness(buf, ledBrightness)
       IN  /\ leds' = out
           /\ trace' = trace \o (IF rewrite THEN <<Ev("write")>> ELSE <<>>)
                             \o <<Ev("clamp"), Show(out)>>
    /\ serialIn' = NoByte
    /\ EndTick
    /\ UNCHANGED <<audioIn, ledMode, ledStatus, ledBrightness, ledBrightnessPreset,
                   dynamicHue>>
    /\ UNCHANGED passVars

\* the tail of both visualizers: setGlobalBrightness(); FastLED.show();
ClampAndShow(buf, wrote) ==
    LET out == SetGlobalBrightness(buf, ledBrightness) IN
    /\ leds' = out
    /\ trace' = trace \o (IF wrote THEN <<Ev("write")>> ELSE <<>>)
                      \o <<Ev("clamp"), Show(out)>>

\* the writes of mellowVisualizer() for the raw byte b, lines 184-208: the
\* level, the buffer after the shift loops and the buffer after the glow loop
MellowPass(buf, b) ==
    LET a == ScaleAudio(b)
        shifted == Ripple(buf)
        centre == [shifted EXCEPT ![37].red = a]
    IN  [audioIn |-> a, rippled |-> shifted, glowed |-> Glow(centre, a)]

\* the writes of dynamicVisualizer() for the raw byte b, lines 137-170
DynamicPass(buf, hsv, b) ==
    LET a == ScaleAudio(b)
        shifted == Ripple(buf)
        hue == [dynamicHueShift(hsv, HueStrength(a)) EXCEPT !.val = a]
        centre == [shifted EXCEPT ![37] = hsv2rgb_rainbow(hue)]
    IN  [audioIn |-> a, dynamicHue |-> hue, rippled |-> shifted,
         glowed |-> Glow(centre, a)]

\* mellowVisualizer(), lines 179-212, with a byte waiting on the serial link
mellowVisualizer(b) ==
    /\ pc = "run" /\ ledStatus = 1 /\ ledMode = 8
    /\ LET pass == MellowPass(leds, b) IN
       /\ audioIn' = pass.audioIn
       /\ rippled' = pass.rippled
       /\ glowed' = pass.glowed
       /\ ClampAndShow(pass.glowed, TRUE)
    /\ serialIn' = b
    /\ EndTick
    /\ UNCHANGED <<ledMode, ledStatus, ledBrightness, ledBrightnessPreset, dynamicHue>>

\* dynamicVisualizer(), lines 132-174, with a byte waiting on the serial link
dynamicVisualizer(b) ==
    /\ pc = "run" /\ ledStatus = 1 /\ ledMode = 9
    /\ LET pass == DynamicPass(leds, dynamicHue, b) IN
       /\ audioIn' = pass.audioIn
       /\ dynamicHue' = pass.dynamicHue
       /\ rippled' = pass.rippled
       /\ glowed' = pass.glowed
       /\ ClampAndShow(pass.glowed, TRUE)
    /\ serialIn' = b
    /\ EndTick
    /\ UNCHANGED <<ledMode, ledStatus, ledBrightness, ledBrightnessPreset>>

\* (variant) the reductive constant applied outside the if (Serial.available())
visualizerNoDataDecay ==
    /\ pc = "run" /\ ledStatus = 1 /\ ledMode \in {8, 9}
    /\ ClampAndShow(Glow(leds, 0), FALSE)
    /\ serialIn' = NoByte
    /\ EndTick
    /\ UNCHANGED <<audioIn, ledMode, ledStatus, ledBrightness, ledBrightnessPreset,
                   dynamicHue>>
    /\ UNCHANGED passVars

\* either visualizer when Serial.available() is 0
visualizerNoData ==
    /\ pc = "run" /\ ledStatus = 1 /\ ledMode \in {8, 9}
    /\ ClampAndShow(leds, FALSE)
    /\ serialIn' = NoByte
    /\ EndTick
    /\ UNCHANGED <<audioIn, ledMode, ledStatus, ledBrightness, ledBrightnessPreset,
                   dynamicHue>>
    /\ UNCHANGED passVars

\* (variant) loop() without its final else
unimplementedModeStaysOn ==
    /\ pc = "run" /\ ledStatus = 1 /\ ledMode \notin {0, 8, 9}
    /\ serialIn' = NoByte
    /\ EndTick
    /\ UNCHANGED <<leds, audioIn, ledMode, ledStatus, ledBrightness,
                   ledBrightnessPreset, dynamicHue, trace>>
    /\ UNCHANGED passVars

\* lines 106-107: non-implemented mode selected, ledStatus = 0
unimplementedMode ==
    /\ pc = "run" /\ ledStatus = 1 /\ ledMode \notin {0, 8, 9}
    /\ ledStatus' = 0
    /\ serialIn' = NoByte
    /\ EndTick
    /\ UNCHANGED <<leds, audioIn, ledMode, ledBrightness, ledBrightnessPreset,
                   dynamicHue, trace>>
    /\ UNCHANGED passVars

\* (variant) loop() committing the buffer when ledStatus is not 1
inactiveShows ==
    /\ pc = "run" /\ ledStatus # 1
    /\ trace' = trace \o <<Show(leds)>>
    /\ serialIn' = NoByte
    /\ EndTick
    /\ UNCHANGED <<leds, audioIn, ledMode, ledStatus, ledBrightness,
                   ledBrightnessPreset, dynamicHue>>
    /\ UNCHANGED passVars

\* line 99: ledStatus is not 1, nothing runs
inactive ==
    /\ pc = "run" /\ ledStatus # 1
    /\ serialIn' = NoByte
    /\ EndTick
    /\ UNCHANGED <<leds, audioIn, ledMode, ledStatus, ledBrightness,
                   ledBrightnessPreset, dynamicHue, trace>>
    /\ UNCHANGED passVars

\* the bytes the companion program is taken to send
SerialBytes == {0, 60, 127, 200}

Next ==
    \/ tick < MaxTicks /\ \E code \in Codes : Poll(code)
    \/ tick < MaxTicks /\ NoSignal
    \/ red
    \/ \E b \in SerialBytes : mellowVisualizer(b)
    \/ \E b \in SerialBytes : dynamicVisualizer(b)
    \/ visualizerNoData
    \/ unimplementedMode
    \/ inactive

Spec == Init /\ [][Next]_vars

----------------------------------------------------------------------------
(* The same loop with a remote that sends only the two arrows, digit 0 and a
   garbled code, run for more iterations: long enough to walk the brightness
   preset from one end to the other *)

ArrowSessionCodes == {ArrowUp, ArrowDown, ModeCode[0], W(0, 0)}

NextArrows ==
    \/ tick < MaxArrowTicks /\ \E code \in ArrowSessionCodes : Poll(code)
    \/ tick < MaxArrowTicks /\ NoSignal
    \/ red
    \/ inactive

SpecArrows == Init /\ [][NextArrows]_vars

----------------------------------------------------------------------------
(* setGlobalBrightness on its own: any ceiling, buffers over a set of channel
   values, the function applied up to twice *)

ChannelSamples == {0, 26, 100, 255}

\* a buffer whose pixels carry the three values in rotation, so that every
\* value sits in every channel of both zones
Rotated(r, g, b) ==
    [i \in Pixels |->
        CASE i % 3 = 0 -> CRGB(r, g, b)
          [] i % 3 = 1 -> CRGB(g, b, r)
          [] i % 3 = 2 -> CRGB(b, r, g)]

InitClamp ==
    /\ pc = "clamp"
    /\ tick = 0
    /\ \E r \in ChannelSamples, g \in ChannelSamples, b \in ChannelSamples :
          leds = Rotated(r, g, b)
    /\ audioIn = 0
    /\ ledMode = 0
    /\ ledStatus = 1
    /\ ledBrightness \in Byte
    /\ ledBrightnessPreset = 4
    /\ dynamicHue = CHSV(0, 255, 255)
    /\ results = NoCode
    /\ serialIn = NoByte
    /\ trace = <<>>
    /\ audioSample = 0
    /\ statusAtPoll = 1
    /\ displayed = Black
    /\ rippled = <<>>
    /\ glowed = <<>>
    /\ OtherInit

\* one call of setGlobalBrightness()
setGlobalBrightness ==
    /\ pc = "clamp"
    /\ tick < MaxClamps
    /\ tick' = tick + 1
    /\ leds' = SetGlobalBrightness(leds, ledBrightness)
    /\ trace' = Append(trace, Ev("clamp"))
    /\ UNCHANGED <<pc, audioIn, ledMode, ledStatus, ledBrightness,
                   ledBrightnessPreset, dynamicHue, results, serialIn, audioSample,
                   statusAtPoll, displayed>>
    /\ UNCHANGED otherVars
    /\ UNCHANGED passVars

SpecClamp == InitClamp /\ [][setGlobalBrightness]_vars

----------------------------------------------------------------------------
(* The audio doubling on its own: every raw byte *)

\* the doubling of one raw byte, as the visualizers and sampleAudio store it
sampleByte(b) ==
    /\ pc = "poll"
    /\ serialIn' = b
    /\ audioIn' = ScaleAudio(b)
    /\ audioSample' = sampleAudioScale(b)
    /\ UNCHANGED <<pc, tick, leds, ledMode, ledStatus, ledBrightness,
                   ledBrightnessPreset, dynamicHue, results, trace, statusAtPoll, displayed>>
    /\ UNCHANGED otherVars
    /\ UNCHANGED passVars

NextAudio == \E b \in Byte : sampleByte(b)

SpecAudio == Init /\ [][NextAudio]_vars

----------------------------------------------------------------------------
(* sampleAudio of the two-strip sketch on its own, lines 909-922: the history
   buffer after up to a hundred and one samples, then any further samples *)

RECURSIVE SmearSamples(_, _, _)
\* (variant) the shift loop counting upwards: for (int i = 1; i < 100; i++)
SmearSamples(buf, lo, hi) ==
    IF hi \notin DOMAIN buf \/ lo > hi THEN buf
    ELSE IF lo = hi THEN [buf EXCEPT ![lo] = buf[lo - 1]]
    ELSE SmearSamples(SmearSamples(buf, lo, (lo + hi) \div 2), ((lo + hi) \div 2) + 1, hi)

\* (variant) ShiftSamples with the loop counting upwards
ShiftSamplesUp(buf, hi, lo) == SmearSamples(buf, lo, hi)

RECURSIVE ShiftSamples(_, _, _)
\* for (int i = 99; i > 0; i--) audioSamples[i] = audioSamples[i-1];
\* the iterations i = hi, hi - 1, .. , lo in that order, each on the buffer the
\* one before it left (the range is halved so that the nesting stays shallow)
ShiftSamples(buf, hi, lo) ==
    IF hi \notin DOMAIN buf \/ hi < lo THEN buf
    ELSE IF hi = lo THEN [buf EXCEPT ![hi] = buf[hi - 1]]
    ELSE ShiftSamples(ShiftSamples(buf, hi, ((hi + lo) \div 2) + 1), (hi + lo) \div 2, lo)

\* audioSamples after sampleAudio(rawAudio)
SampleAudio(buf, rawAudio) ==
    [ShiftSamples(buf, 99, 1) EXCEPT ![0] = sampleAudioScale(rawAudio)]

\* the k-th raw byte of the stream that fills the history before the free
\* samples: it takes values below and above the doubling's limit
StreamByte(k) == (k * 37) % 256

\* the first n bytes of the stream, latest first
Stream(n) == [k \in 1 .. n |-> StreamByte(n + 1 - k)]

RECURSIVE SampledFrom(_, _, _)
\* audioSamples after sampleAudio was called on bytes lo .. hi of the stream,
\* one after the other, starting from buf
SampledFrom(buf, lo, hi) ==
    IF 0 \notin DOMAIN buf \/ lo > hi THEN buf
    ELSE IF lo = hi THEN SampleAudio(buf, StreamByte(lo))
    ELSE SampledFrom(SampledFrom(buf, lo, (lo + hi) \div 2), ((lo + hi) \div 2) + 1, hi)

\* audioSamples after sampleAudio was called on the first n bytes of the stream
Sampled(n) == SampledFrom(NoSamples, 1, n)

\* how many samples have arrived when the free samples begin
StreamLengths == {0, 1, 98, 99, 100, 101}

\* the raw bytes of the free samples
SampleBytes == {0, 1, 127, 128, 255}

InitSamples ==
    /\ pc = "sample"
    /\ tick = 0
    /\ leds = Black
    /\ audioIn = 0
    /\ ledMode = 0
    /\ ledStatus = 1
    /\ ledBrightness = 255
    /\ ledBrightnessPreset = 4
    /\ dynamicHue = CHSV(0, 255, 255)
    /\ results = NoCode
    /\ serialIn = NoByte
    /\ trace = <<>>
    /\ statusAtPoll = 1
    /\ displayed = Black
    /\ \E n \in StreamLengths :
          /\ received = Stream(n)
          /\ audioSamples = Sampled(n)
          /\ audioSample = IF n = 0 THEN 0 ELSE sampleAudioScale(StreamByte(n))
    /\ hueAtStart = 0
    /\ dynamicHueCycle = 0
    /\ hueCall = NoCall
    /\ rippled = <<>>
    /\ glowed = <<>>
    /\ loopI = 0
    /\ loopStrength = 0
    /\ callDepth = 0
    /\ ledsD = BlackDesk
    /\ scrollingHue = 0
    /\ visSpread = 0
    /\ accessed = {}

\* one call sampleAudio(rawAudio)
sampleAudio(rawAudio) ==
    /\ pc = "sample"
    /\ tick < MaxSamples
    /\ tick' = tick + 1
    /\ audioSamples' = SampleAudio(audioSamples, rawAudio)
    /\ audioSample' = sampleAudioScale(rawAudio)
    /\ received' = <<rawAudio>> \o received
    /\ UNCHANGED <<pc, leds, audioIn, ledMode, ledStatus, ledBrightness,
                   ledBrightnessPreset, dynamicHue, results, serialIn, trace,
                   statusAtPoll, displayed, hueAtStart, dynamicHueCycle, hueCall>>
    /\ UNCHANGED passVars
    /\ UNCHANGED loopVars
    /\ UNCHANGED deskVars

NextSamples == \E rawAudio \in SampleBytes : sampleAudio(rawAudio)

SpecSamples == InitSamples /\ [][NextSamples]_vars

----------------------------------------------------------------------------
(* dynamicHueShift on its own, lines 387-396 (and 896-905): any hue the
   visualizers can have left, shifted by a sequence of strengths *)

\* hues at the start: both ends of the range and values between
StartHues == {0, 1, 100, 254, 255}

\* dynamicHue.val is the last audio level: silence, a doubled byte, full
StartVals == {0, 120, 255}

\* strengths: the visualizers pass audioIn/15, audioIn/70, audioSample/50 and
\* audioSample/100 (at most 17); the parameter is an int, and the larger
\* values take the hue around the circle
Strengths == {0, 1, 2, 5, 17, 100, 255, 256, 300}

InitHue ==
    /\ pc = "shift"
    /\ tick = 0
    /\ leds = Black
    /\ audioIn = 0
    /\ ledMode = 9
    /\ ledStatus = 1
    /\ ledBrightness = 255
    /\ ledBrightnessPreset = 4
    /\ \E h \in StartHues, v \in StartVals :
          /\ dynamicHue = CHSV(h, 255, v)
          /\ hueAtStart = h
    /\ results = NoCode
    /\ serialIn = NoByte
    /\ trace = <<>>
    /\ audioSample = 0
    /\ statusAtPoll = 1
    /\ displayed = Black
    /\ audioSamples = NoSamples
    /\ received = <<>>
    /\ dynamicHueCycle = 0
    /\ hueCall = NoCall
    /\ rippled = <<>>
    /\ glowed = <<>>
    /\ loopI = 0
    /\ loopStrength = 0
    /\ callDepth = 0
    /\ ledsD = BlackDesk
    /\ scrollingHue = 0
    /\ visSpread = 0
    /\ accessed = {}

\* one call dynamicHueShift(strength)
shiftHue(strength) ==
    /\ pc = "shift"
    /\ tick < MaxShifts
    /\ tick' = tick + 1
    /\ dynamicHue' = dynamicHueShift(dynamicHue, strength)
    /\ received' = <<strength>> \o received
    /\ UNCHANGED <<pc, leds, audioIn, ledMode, ledStatus, ledBrightness,
                   ledBrightnessPreset, results, serialIn, trace, audioSample,
                   statusAtPoll, displayed, audioSamples, hueAtStart, dynamicHueCycle, hueCall>>
    /\ UNCHANGED passVars
    /\ UNCHANGED loopVars
    /\ UNCHANGED deskVars

NextHue == \E strength \in Strengths : shiftHue(strength)

SpecHue == InitHue /\ [][NextHue]_vars

----------------------------------------------------------------------------
(* DynamicHueModifier of the boot sketch, src/unnamed/part_000 lines 162-226,
   on its own.  In that sketch dynamicHue is a CRGB and dynamicHueCycle the
   phase of the red -> green -> blue cycle. *)

\* dynamicHue[k]: CRGB's operator[] indexes red, green, blue as 0, 1, 2
Channel(c, k) ==
    CASE k = 0 -> c.red
      [] k = 1 -> c.green
      [] k = 2 -> c.blue

\* dynamicHue[k] = v
SetChannel(c, k, v) ==
    CASE k = 0 -> [c EXCEPT !.red = v]
      [] k = 1 -> [c EXCEPT !.green = v]
      [] k = 2 -> [c EXCEPT !.blue = v]

\* lines 170-188: source is assigned in the cycles 0, 1 and 2 only
Source(cycle) ==
    CASE cycle = 0 -> 0
      [] cycle = 1 -> 1
      [] cycle = 2 -> 2

\* lines 170-188: target is assigned in the cycles 0, 1 and 2 only
Target(cycle) ==
    CASE cycle = 0 -> 1
      [] cycle = 1 -> 2
      [] cycle = 2 -> 0

\* (variant) the phase advanced by two
NextCycleSkip(cycle) == (cycle + 2) % 3

\* lines 219-220: dynamicHueCycle++; if (dynamicHueCycle > 2) {dynamicHueCycle = 0;}
NextCycle(cycle) == IF ToByte(cycle + 1) > 2 THEN 0 ELSE ToByte(cycle + 1)

\* A run of DynamicHueModifier is a record: hue and cycle are the globals,
\* strength the parameter as the loops count it down, steps the number of
\* dynamicHue[..]++ and dynamicHue[..]-- executed, wrapped whether one of them
\* left 0..255, returned whether the function has executed a return.

RECURSIVE DynamicHueModifierBody(_)
RECURSIVE TargetLoop(_, _)
RECURSIVE SourceLoop(_, _)

\* one iteration of the loop of lines 194-204
TargetStep(run) ==
    IF run.returned \/ run.strength <= 0 THEN run
    ELSE LET t == Target(run.cycle)
             v == Channel(run.hue, t)
             up == [run EXCEPT !.hue = SetChannel(@, t, ToByte(v + 1)),
                               !.steps = @ + 1,
                               !.wrapped = @ \/ v = 255]
         IN  IF ToByte(v + 1) = 255
             THEN [DynamicHueModifierBody(up) EXCEPT !.returned = TRUE]
             ELSE [up EXCEPT !.strength = @ - 1]

\* one iteration of the loop of lines 211-224
SourceStep(run) ==
    IF run.returned \/ run.strength <= 0 THEN run
    ELSE LET src == Source(run.cycle)
             v == Channel(run.hue, src)
             down == [run EXCEPT !.hue = SetChannel(@, src, ToByte(v - 1)),
                                 !.steps = @ + 1,
                                 !.wrapped = @ \/ v = 0]
         IN  IF ToByte(v - 1) = 0
             THEN [DynamicHueModifierBody([down EXCEPT !.cycle = NextCycle(@)])
                      EXCEPT !.returned = TRUE]
             ELSE [down EXCEPT !.strength = @ - 1]

\* n iterations of the first loop, one after the other
TargetLoop(run, n) ==
    IF run.returned \/ n <= 0 THEN run
    ELSE IF n = 1 THEN TargetStep(run)
    ELSE TargetLoop(TargetLoop(run, n \div 2), n - (n \div 2))

\* n iterations of the second loop, one after the other
SourceLoop(run, n) ==
    IF run.returned \/ n <= 0 THEN run
    ELSE IF n = 1 THEN SourceStep(run)
    ELSE SourceLoop(SourceLoop(run, n \div 2), n - (n \div 2))

\* lines 191-225: the loop that the test of dynamicHue[target] selects; each
\* loop ends within run.strength iterations, every iteration that does not
\* return taking one off strength
DynamicHueModifierBody(run) ==
    IF Channel(run.hue, Target(run.cycle)) < 255
    THEN TargetLoop(run, run.strength)
    ELSE SourceLoop(run, run.strength)

\* the run of DynamicHueModifier(strength) from the globals hue and cycle
DynamicHueModifierRun(hue, cycle, strength) ==
    DynamicHueModifierBody([hue |-> hue, cycle |-> cycle, strength |-> strength,
                            steps |-> 0, wrapped |-> FALSE, returned |-> FALSE])

\* strengths between 0 and 255: none, one (which reaches every colour of the
\* cycle), a few, all
CycleStrengths == {0, 1, 17, 255}

\* lines 32-46 of the boot sketch
InitCycle ==
    /\ pc = "modify"
    /\ tick = 0
    /\ leds = Black
    /\ audioIn = 0
    /\ ledMode = 10
    /\ ledStatus = 1
    /\ ledBrightness = 255
    /\ ledBrightnessPreset = 4
    /\ dynamicHue = CRGB(255, 0, 0)
    /\ dynamicHueCycle = 0
    /\ hueCall = NoCall
    /\ results = NoCode
    /\ serialIn = NoByte
    /\ trace = <<>>
    /\ audioSample = 0
    /\ statusAtPoll = 1
    /\ displayed = Black
    /\ audioSamples = NoSamples
    /\ received = <<>>
    /\ hueAtStart = 0
    /\ rippled = <<>>
    /\ glowed = <<>>
    /\ loopI = 0
    /\ loopStrength = 0
    /\ callDepth = 0
    /\ ledsD = BlackDesk
    /\ scrollingHue = 0
    /\ visSpread = 0
    /\ accessed = {}

\* one call DynamicHueModifier(strength)
DynamicHueModifier(strength) ==
    /\ pc = "modify"
    /\ LET run == DynamicHueModifierRun(dynamicHue, dynamicHueCycle, strength) IN
       /\ dynamicHue' = run.hue
       /\ dynamicHueCycle' = run.cycle
       /\ hueCall' = [strength |-> strength, steps |-> run.steps,
                      wrapped |-> run.wrapped]
    /\ UNCHANGED <<pc, tick, leds, audioIn, ledMode, ledStatus, ledBrightness,
                   ledBrightnessPreset, results, serialIn, trace, audioSample,
                   statusAtPoll, displayed, audioSamples, received, hueAtStart>>
    /\ UNCHANGED passVars
    /\ UNCHANGED loopVars
    /\ UNCHANGED deskVars

NextCycles == \E strength \in CycleStrengths : DynamicHueModifier(strength)

SpecCycle == InitCycle /\ [][NextCycles]_vars

----------------------------------------------------------------------------
(* A visualizer session: mode 8 or 9 selected on a black strip, the bytes of
   the stream shown one per iteration, then iterations with any byte or none *)

\* the globals a visualizer tick writes, after one tick with the k-th byte of
\* the stream: the pass, then setGlobalBrightness
StreamTick(st, mode, lb, k) ==
    IF mode = 9
    THEN LET pass == DynamicPass(st.leds, st.dynamicHue, StreamByte(k)) IN
         [leds |-> SetGlobalBrightness(pass.glowed, lb),
          dynamicHue |-> pass.dynamicHue, audioIn |-> pass.audioIn]
    ELSE LET pass == MellowPass(st.leds, StreamByte(k)) IN
         [leds |-> SetGlobalBrightness(pass.glowed, lb),
          dynamicHue |-> st.dynamicHue, audioIn |-> pass.audioIn]

RECURSIVE StreamTicks(_, _, _, _, _)
\* the ticks for the bytes lo .. hi of the stream, one after the other
StreamTicks(st, mode, lb, lo, hi) ==
    IF 0 \notin DOMAIN st.leds \/ lo > hi THEN st
    ELSE IF lo = hi THEN StreamTick(st, mode, lb, lo)
    ELSE StreamTicks(StreamTicks(st, mode, lb, lo, (lo + hi) \div 2), mode, lb,
                     ((lo + hi) \div 2) + 1, hi)

\* how many bytes of the stream have been shown when the free ticks begin:
\* none, a few, and enough for the ripple to have reached pixels 0 and 74
StreamTicksShown == {0, 12, 40}

\* the brightness presets of the session
SessionPresets == {2, 4}

InitVisualizer ==
    /\ pc = "poll"
    /\ tick = 0
    /\ ledStatus = 1
    /\ \E n \in StreamTicksShown, mode \in {8, 9}, p \in SessionPresets :
          LET st == StreamTicks([leds |-> Black, dynamicHue |-> CHSV(0, 255, 255),
                                 audioIn |-> 0],
                                mode, PresetCeiling(p), 1, n)
          IN  /\ ledMode = mode
              /\ ledBrightnessPreset = p
              /\ ledBrightness = PresetCeiling(p)
              /\ leds = st.leds
              /\ dynamicHue = st.dynamicHue
              /\ audioIn = st.audioIn
    /\ results = NoCode
    /\ serialIn = NoByte
    /\ trace = <<>>
    /\ audioSample = 0
    /\ statusAtPoll = 1
    /\ displayed = leds
    /\ rippled = <<>>
    /\ glowed = <<>>
    /\ OtherInit

NextVisualizer ==
    \/ tick < MaxVisTicks /\ NoSignal
    \/ \E b \in SerialBytes : mellowVisualizer(b)
    \/ \E b \in SerialBytes : dynamicVisualizer(b)
    \/ visualizerNoData

SpecVisualizer == InitVisualizer /\ [][NextVisualizer]_vars

----------------------------------------------------------------------------
(* Static red selected after a visualizer session: the same starts, and a
   remote that sends digit 0 or nothing *)

NextRed ==
    \/ tick < MaxRedTicks /\ Poll(ModeCode[0])
    \/ tick < MaxRedTicks /\ NoSignal
    \/ red
    \/ \E b \in SerialBytes : mellowVisualizer(b)
    \/ \E b \in SerialBytes : dynamicVisualizer(b)
    \/ visualizerNoData

SpecRed == InitVisualizer /\ [][NextRed]_vars

----------------------------------------------------------------------------
(* The two-strip sketch, lines 458-989.  Its case strip ledsC is the variable
   leds, its globals ledMode, ledStatus, ledBrightness, dynamicHue,
   audioSample and audioSamples are the variables of those names, and its
   IRHandler has the same digit cases.  visSpread is kept exactly, as a whole
   number of units of 1/285: the float of the build differs from it by
   rounding, which changes the integer part only where the exact value is a
   whole number reached by subtraction. *)

\* <<array, index>> for every index of the set
Elements(array, indices) == {<<array, i>> : i \in indices}

\* lines 915-921 of sampleAudio: audioSamples[i] = audioSamples[i-1] for
\* i = 99 .. 1, then audioSamples[0]
SampleElements ==
    Elements("audioSamples",
             {i : i \in 1 .. 99} \cup {i - 1 : i \in 1 .. 99} \cup {0})

\* lines 688-691 of caseVisualizer: ledsC[i] = ledsC[i+1] for i < 37 and
\* ledsC[i] = ledsC[i-1] for 74 >= i > 37
RippleElements ==
    Elements("ledsC",
             {i : i \in 0 .. 36} \cup {i + 1 : i \in 0 .. 36}
                \cup {i : i \in 38 .. 74} \cup {i - 1 : i \in 38 .. 74})

\* lines 870-891 of setGlobalBrightness: the loops over the desk strip, the
\* back of the case and the GPU pixels
ClampElements ==
    Elements("ledsD", 0 .. (NUM_LEDS_DESK - 1))
       \cup Elements("ledsC", 0 .. 99)
       \cup Elements("ledsC", 100 .. (NUM_LEDS - 1))

\* the desk loop of setGlobalBrightness, lines 870-875
SetDeskBrightness(buf, lb) ==
    [i \in DeskPixels |->
        CRGB(ClampBack(buf[i].red, lb), ClampBack(buf[i].green, lb),
             ClampBack(buf[i].blue, lb))]

\* for (int i = 0; i < NUM_LEDS_DESK; i++) ledsD[i] = CRGB(255, 0, 0);
RedDesk == [i \in DeskPixels |-> CRGB(255, 0, 0)]

\* for (int i = 0; i < NUM_LEDS_CASE; i++) ledsC[i] = CRGB(255, 0, 0);
RedCase == [i \in Pixels |-> CRGB(255, 0, 0)]

\* lines 640-647 of deskVisualizer: the spread is reduced by .2 below 5, by .4
\* below 10, by .6 below 20 and by 1 from there, and is not left below zero
SpreadDecay(v) ==
    LET d == IF v < 5 * 285 THEN v - 57
             ELSE IF v < 10 * 285 THEN v - 114
             ELSE IF v < 20 * 285 THEN v - 171
             ELSE v - 285
    IN  IF d < 0 THEN 0 ELSE d

\* (variant) the spread raised to audioSample/5
SpreadOfFifth(v, sample) ==
    IF 57 * sample > SpreadDecay(v) THEN 57 * sample ELSE SpreadDecay(v)

\* lines 640-651: visSpread after one call with audioSample = sample;
\* audioSample/5.7 is 50 * sample units
SpreadOf(v, sample) ==
    IF 50 * sample > SpreadDecay(v) THEN 50 * sample ELSE SpreadDecay(v)

\* (int)visSpread
IntPart(v) == v \div 285

\* 255*edgeScale, with edgeScale = visSpread - (int)visSpread, as a byte
EdgeVal(v) == (255 * (v % 285)) \div 285

\* ledsD[..] = CHSV(h, 255, val): the hue is kept in eight bits
DeskPixel(h, val) == hsv2rgb_rainbow(CHSV(ToByte(h), 255, val))

\* lines 658-670: the elements the spread loop and the two edge writes use
SpreadElements(v) ==
    Elements("ledsD", {45 + i : i \in 0 .. IntPart(v)}
                         \cup {45 - i : i \in 0 .. IntPart(v)})

\* lines 654-670: ledsD after the reset, the spread loop with scrollingHue = sh,
\* scrollingHue += 1 and the two edge writes (every index inside the array)
SpreadFrame(sh, v) ==
    [j \in DeskPixels |->
        LET d == IF j >= 45 THEN j - 45 ELSE 45 - j IN
        IF d = IntPart(v)
        THEN DeskPixel(ToByte(sh + 1) + IntPart(v) * 2, EdgeVal(v))
        ELSE IF d < IntPart(v) THEN DeskPixel(sh + d * 2, 255)
        ELSE CRGB(0, 0, 0)]

\* lines 694-695 of caseVisualizer: the strength of the hue shift
CaseHueStrength(sample) == IF sample > 200 THEN sample \div 50 ELSE sample \div 100

\* the end of one iteration of loop() of the two-strip sketch
EndTickStrips ==
    /\ pc' = "poll"
    /\ tick' = tick + 1
    /\ UNCHANGED <<audioIn, ledMode, ledStatus, ledBrightness, ledBrightnessPreset,
                   results, statusAtPoll, displayed, received, hueAtStart,
                   dynamicHueCycle, hueCall>>
    /\ UNCHANGED loopVars

\* red() of the two-strip sketch, lines 609-621
redStrips ==
    /\ pc = "run" /\ ledStatus = 1 /\ ledMode = 0
    /\ leds' = SetGlobalBrightness(IF leds[0].red # 255 THEN RedCase ELSE leds,
                                   ledBrightness)
    /\ ledsD' = SetDeskBrightness(IF ledsD[0].red # 255 THEN RedDesk ELSE ledsD,
                                  ledBrightness)
    /\ trace' = trace \o (IF leds[0].red # 255 \/ ledsD[0].red # 255
                          THEN <<Ev("write")>> ELSE <<>>)
                      \o <<Ev("clamp"), Show(leds')>>
    /\ accessed' = {<<"ledsC", 0>>, <<"ledsD", 0>>}
                      \cup (IF leds[0].red # 255
                            THEN Elements("ledsC", 0 .. (NUM_LEDS - 1)) ELSE {})
                      \cup (IF ledsD[0].red # 255
                            THEN Elements("ledsD", 0 .. (NUM_LEDS_DESK - 1)) ELSE {})
                      \cup ClampElements
    /\ serialIn' = NoByte
    /\ EndTickStrips
    /\ UNCHANGED <<dynamicHue, audioSample, audioSamples, scrollingHue, visSpread>>
    /\ UNCHANGED passVars

\* caseVisualizer(), lines 679-718, with a byte waiting on the serial link
caseVisualizer(b) ==
    /\ pc = "run" /\ ledStatus = 1 /\ ledMode = 8
    /\ LET sample == sampleAudioScale(b)
           shifted == Ripple(leds)
           hue == [dynamicHueShift(dynamicHue, CaseHueStrength(sample))
                      EXCEPT !.val = sample]
           centre == [shifted EXCEPT ![37] = hsv2rgb_rainbow(hue)]
       IN  /\ audioSamples' = SampleAudio(audioSamples, b)
           /\ audioSample' = sample
           /\ dynamicHue' = hue
           /\ rippled' = shifted
           /\ glowed' = Glow(centre, sample)
           /\ leds' = SetGlobalBrightness(Glow(centre, sample), ledBrightness)
    /\ ledsD' = SetDeskBrightness(RedDesk, ledBrightness)
    /\ trace' = trace \o <<Ev("write"), Ev("clamp"), Show(leds')>>
    /\ accessed' = SampleElements \cup RippleElements \cup {<<"ledsC", 37>>}
                      \cup Elements("ledsC", 75 .. 111)
                      \cup Elements("ledsD", 0 .. (NUM_LEDS_DESK - 1))
                      \cup ClampElements
    /\ serialIn' = b
    /\ EndTickStrips
    /\ UNCHANGED <<scrollingHue, visSpread>>

\* caseVisualizer() when Serial.available() is 0: the desk strip is set to red
caseVisualizerNoData ==
    /\ pc = "run" /\ ledStatus = 1 /\ ledMode = 8
    /\ leds' = SetGlobalBrightness(leds, ledBrightness)
    /\ ledsD' = SetDeskBrightness(RedDesk, ledBrightness)
    /\ trace' = trace \o <<Ev("write"), Ev("clamp"), Show(leds')>>
    /\ accessed' = Elements("ledsD", 0 .. (NUM_LEDS_DESK - 1)) \cup ClampElements
    /\ serialIn' = NoByte
    /\ EndTickStrips
    /\ UNCHANGED <<dynamicHue, audioSample, audioSamples, scrollingHue, visSpread>>
    /\ UNCHANGED passVars

\* deskVisualizer(), lines 626-674, with a byte waiting on the serial link
deskVisualizer(b) ==
    /\ pc = "run" /\ ledStatus = 1 /\ ledMode = 9
    /\ audioSamples' = SampleAudio(audioSamples, b)
    /\ audioSample' = sampleAudioScale(b)
    /\ leds' = SetGlobalBrightness(IF leds[0].red # 255 THEN RedCase ELSE leds,
                                   ledBrightness)
    /\ visSpread' = SpreadOf(visSpread, sampleAudioScale(b))
    /\ scrollingHue' = ToByte(scrollingHue + 1)
    /\ ledsD' = SetDeskBrightness(SpreadFrame(scrollingHue, visSpread'),
                                  ledBrightness)
    /\ trace' = trace \o <<Ev("write"), Ev("clamp"), Show(leds')>>
    /\ accessed' = SampleElements \cup {<<"ledsC", 0>>}
                      \cup (IF leds[0].red # 255
                            THEN Elements("ledsC", 0 .. (NUM_LEDS - 1)) ELSE {})
                      \cup Elements("ledsD", 0 .. (NUM_LEDS_DESK - 1))
                      \cup SpreadElements(visSpread')
                      \cup ClampElements
    /\ serialIn' = b
    /\ EndTickStrips
    /\ UNCHANGED dynamicHue
    /\ UNCHANGED passVars

\* deskVisualizer() when Serial.available() is 0
deskVisualizerNoData ==
    /\ pc = "run" /\ ledStatus = 1 /\ ledMode = 9
    /\ leds' = SetGlobalBrightness(leds, ledBrightness)
    /\ ledsD' = SetDeskBrightness(ledsD, ledBrightness)
    /\ trace' = trace \o <<Ev("clamp"), Show(leds')>>
    /\ accessed' = ClampElements
    /\ serialIn' = NoByte
    /\ EndTickStrips
    /\ UNCHANGED <<dynamicHue, audioSample, audioSamples, scrollingHue, visSpread>>
    /\ UNCHANGED passVars

\* the digits of the three implemented modes
StripModes == {0, 8, 9}

\* loop(), lines 580-600, with a remote that sends those digits or nothing
NextStrips ==
    \/ tick < MaxStripTicks /\ \E n \in StripModes : Poll(ModeCode[n])
    \/ tick < MaxStripTicks /\ NoSignal
    \/ redStrips
    \/ \E b \in SerialBytes : caseVisualizer(b)
    \/ caseVisualizerNoData
    \/ \E b \in SerialBytes : deskVisualizer(b)
    \/ deskVisualizerNoData

SpecStrips == Init /\ [][NextStrips]_vars

----------------------------------------------------------------------------
(* The boot sketch, src/unnamed/part_000: the same strip and remote, ledMode
   10 at power-up, no brightness presets and no clamp.  Its globals leds,
   audioIn, ledMode, ledStatus, dynamicHue and dynamicHueCycle are the
   variables of the same names; its loop() is split at the same two places. *)

\* lines 120-131: the twelve cases that are a bare break (the arrows too)
IgnoredCodesBoot == IgnoredCodes \cup {ArrowUp, ArrowDown}

\* Off(), lines 154-158: FastLED.clear(); FastLED.show();
Off(buf) == [i \in Pixels |-> CRGB(0, 0, 0)]

\* IRHandler(), lines 116-150
IRHandlerBoot(code) ==
    CASE code \in IgnoredCodesBoot ->
            /\ trace' = <<>>
            /\ UNCHANGED <<leds, ledMode, ledStatus>>
      [] code \in ModeCodes ->
            /\ ledMode' = ModeOf(code)
            /\ ledStatus' = 1
            /\ trace' = <<>>
            /\ UNCHANGED leds
      [] OTHER ->
            \* default: Off(); ledStatus = 0;
            /\ leds' = Off(leds)
            /\ trace' = <<Ev("clear"), Show(Off(leds))>>
            /\ ledStatus' = 0
            /\ UNCHANGED ledMode

\* lines 74-78: if (irrecv.decode(&results)) { IRHandler(); irrecv.resume(); }
PollBoot(code) ==
    /\ pc = "poll"
    /\ IRHandlerBoot(code)
    /\ results' = code
    /\ serialIn' = NoByte
    /\ statusAtPoll' = ledStatus
    /\ displayed' = Latest(trace, displayed)
    /\ pc' = "run"
    /\ rippled' = <<>>
    /\ glowed' = <<>>
    /\ UNCHANGED <<tick, audioIn, dynamicHue, audioSample, ledBrightness,
                   ledBrightnessPreset>>
    /\ UNCHANGED otherVars

\* lines 243-246: if (leds[j].red + 1 > 255) leds[j].red = 255; else leds[j].red += 1;
RampPixel(c) == [c EXCEPT !.red = IF Int16(@ + 1) > 255 THEN 255 ELSE ToByte(@ + 1)]

\* the body of the loop of lines 239-262 for one i: the back pixels j < 99,
\* the GPU pixels when i > 10, FastLED.show()
RampStep(st, i) ==
    LET buf == [j \in Pixels |->
                   IF j < 99 THEN RampPixel(st.leds[j])
                   ELSE IF i > 10 /\ j >= 100 /\ j < 112 THEN RampPixel(st.leds[j])
                   ELSE st.leds[j]]
    IN  [leds |-> buf, events |-> st.events \o <<Ev("write"), Show(buf)>>]

RECURSIVE Ramp(_, _, _)
\* the iterations i = lo .. hi of that loop, one after the other
Ramp(st, lo, hi) ==
    IF 0 \notin DOMAIN st.leds \/ lo > hi THEN st
    ELSE IF lo = hi THEN RampStep(st, lo)
    ELSE Ramp(Ramp(st, lo, (lo + hi) \div 2), ((lo + hi) \div 2) + 1, hi)

\* the body of the loop of lines 265-275: the GPU pixels, FastLED.show()
FinishStep(st) ==
    LET buf == [j \in Pixels |->
                   IF j >= 100 /\ j < 112 THEN RampPixel(st.leds[j]) ELSE st.leds[j]]
    IN  [leds |-> buf, events |-> st.events \o <<Ev("write"), Show(buf)>>]

RECURSIVE Finish(_, _)
\* n iterations of that loop
Finish(st, n) ==
    IF 0 \notin DOMAIN st.leds \/ n <= 0 THEN st
    ELSE Finish(FinishStep(st), n - 1)

\* the buffer and the commits of BootSequence(), lines 235-275
BootRun(buf) ==
    Finish(Ramp([leds |-> Off(buf), events |-> <<Ev("clear"), Show(Off(buf))>>],
                0, 254),
           10)

\* (variant) BootSequence() without its last line
BootSequenceStays ==
    /\ pc = "run" /\ ledStatus = 1 /\ ledMode = 10
    /\ leds' = BootRun(leds).leds
    /\ trace' = trace \o BootRun(leds).events
    /\ serialIn' = NoByte
    /\ EndTick
    /\ UNCHANGED <<audioIn, ledMode, ledStatus, ledBrightness, ledBrightnessPreset,
                   dynamicHue>>
    /\ UNCHANGED passVars

\* BootSequence(), lines 233-279
BootSequence ==
    /\ pc = "run" /\ ledStatus = 1 /\ ledMode = 10
    /\ leds' = BootRun(leds).leds
    /\ trace' = trace \o BootRun(leds).events
    /\ ledMode' = 0
    /\ serialIn' = NoByte
    /\ EndTick
    /\ UNCHANGED <<audioIn, ledStatus, ledBrightness, ledBrightnessPreset, dynamicHue>>
    /\ UNCHANGED passVars

\* Red(), lines 283-291
Red ==
    /\ pc = "run" /\ ledStatus = 1 /\ ledMode = 0
    /\ LET rewrite == leds[0].red # 255
           buf == IF rewrite THEN [i \in Pixels |-> CRGB(255, 0, 0)] ELSE leds
       IN  /\ leds' = buf
           /\ trace' = trace \o (IF rewrite THEN <<Ev("write")>> ELSE <<>>)
                             \o <<Show(buf)>>
    /\ serialIn' = NoByte
    /\ EndTick
    /\ UNCHANGED <<audioIn, ledMode, ledStatus, ledBrightness, ledBrightnessPreset,
                   dynamicHue>>
    /\ UNCHANGED passVars

\* RedDimmed(), lines 294-306
RedDimmed ==
    /\ pc = "run" /\ ledStatus = 1 /\ ledMode = 1
    /\ LET rewrite == leds[0].red # 80
           buf == IF rewrite
                  THEN [i \in Pixels |->
                           IF i < 100 THEN CRGB(40, 0, 0) ELSE CRGB(255, 0, 0)]
                  ELSE leds
       IN  /\ leds' = buf
           /\ trace' = trace \o (IF rewrite THEN <<Ev("write")>> ELSE <<>>)
                             \o <<Show(buf)>>
    /\ serialIn' = NoByte
    /\ EndTick
    /\ UNCHANGED <<audioIn, ledMode, ledStatus, ledBrightness, ledBrightnessPreset,
                   dynamicHue>>
    /\ UNCHANGED passVars

RECURSIVE RippleLowRed(_, _)
\* lines 366-367: for (int i = 0; i < centerLED; i++) leds[i].red = leds[i+1].red;
RippleLowRed(buf, i) ==
    IF i < 37 /\ (i + 1) \in DOMAIN buf
    THEN RippleLowRed([buf EXCEPT ![i].red = buf[i + 1].red], i + 1)
    ELSE buf

RECURSIVE RippleHighRed(_, _)
\* lines 368-369: for (int i = 74; i > centerLED; i--) leds[i].red = leds[i-1].red;
RippleHighRed(buf, i) ==
    IF i > 37 /\ (i - 1) \in DOMAIN buf
    THEN RippleHighRed([buf EXCEPT ![i].red = buf[i - 1].red], i - 1)
    ELSE buf

\* lines 333-343 and 378-388: the GPU pixels before the commit; the test is
\* on leds[100] alone and the sum is an int, the += is on the uint8_t channel
AccentUp(buf, a) ==
    [i \in Pixels |->
        IF i >= 100 /\ i < 112
        THEN IF Int16(buf[100].red + (a \div 5)) <= 255
             THEN [buf[i] EXCEPT !.red = ToByte(@ + (a \div 5))]
             ELSE [buf[i] EXCEPT !.red = 255]
        ELSE buf[i]]

\* lines 347-349 and 392-394: if (leds[100].red < 8) the GPU pixels go black
AccentFloor(buf) ==
    [i \in Pixels |->
        IF i >= 100 /\ i < 112 /\ buf[100].red < 8 THEN CRGB(0, 0, 0) ELSE buf[i]]

\* (variant) the GPU pixels lowered without the test of line 351
AccentDownUnguarded(buf) ==
    [i \in Pixels |->
        IF i >= 100 /\ i < 112 THEN [buf[i] EXCEPT !.red = ToByte(@ - 8)] ELSE buf[i]]

\* lines 351-353 and 396-398: if (leds[100].red > 0) leds[i].red -= 8
AccentDown(buf) ==
    [i \in Pixels |->
        IF i >= 100 /\ i < 112 /\ buf[100].red > 0
        THEN [buf[i] EXCEPT !.red = ToByte(@ - 8)]
        ELSE buf[i]]

\* the tail both visualizers of the boot sketch share: the GPU pixels raised,
\* FastLED.show(), the GPU pixels lowered
AccentAndShow(centre, a) ==
    LET shown == AccentUp(centre, a) IN
    /\ glowed' = shown
    /\ leds' = AccentDown(AccentFloor(shown))
    /\ trace' = trace \o <<Ev("write"), Show(shown), Ev("write")>>

\* DynamicVisualizer(), lines 311-355, with a byte waiting on the serial link
DynamicVisualizer(b) ==
    /\ pc = "run" /\ ledStatus = 1 /\ ledMode = 9
    /\ LET a == ScaleAudio(b)
           shifted == Ripple(leds)
       IN  /\ audioIn' = a
           /\ rippled' = shifted
           /\ AccentAndShow([shifted EXCEPT ![37].red = a], a)
    /\ serialIn' = b
    /\ EndTick
    /\ UNCHANGED <<ledMode, ledStatus, ledBrightness, ledBrightnessPreset, dynamicHue>>

\* MellowVisualizer(), lines 359-400, with a byte waiting on the serial link
MellowVisualizer(b) ==
    /\ pc = "run" /\ ledStatus = 1 /\ ledMode = 8
    /\ LET a == ScaleAudio(b)
           shifted == RippleHighRed(RippleLowRed(leds, 0), 74)
       IN  /\ audioIn' = a
           /\ rippled' = shifted
           /\ AccentAndShow([shifted EXCEPT ![37].red = a], a)
    /\ serialIn' = b
    /\ EndTick
    /\ UNCHANGED <<ledMode, ledStatus, ledBrightness, ledBrightnessPreset, dynamicHue>>

\* either visualizer of the boot sketch when Serial.available() is 0: nothing
VisualizerNoData ==
    /\ pc = "run" /\ ledStatus = 1 /\ ledMode \in {8, 9}
    /\ serialIn' = NoByte
    /\ EndTick
    /\ UNCHANGED <<leds, audioIn, ledMode, ledStatus, ledBrightness,
                   ledBrightnessPreset, dynamicHue, trace>>
    /\ UNCHANGED passVars

\* line 91: non-implemented mode selected, ledStatus = 0
unimplementedModeBoot ==
    /\ pc = "run" /\ ledStatus = 1 /\ ledMode \notin {10, 0, 1, 8, 9}
    /\ ledStatus' = 0
    /\ serialIn' = NoByte
    /\ EndTick
    /\ UNCHANGED <<leds, audioIn, ledMode, ledBrightness, ledBrightnessPreset,
                   dynamicHue, trace>>
    /\ UNCHANGED passVars

\* lines 35-46 and setup(), lines 51-64
InitBoot ==
    /\ pc = "poll"
    /\ tick = 0
    /\ leds = Black
    /\ audioIn = 0
    /\ ledMode = 10
    /\ ledStatus = 1
    /\ ledBrightness = 255
    /\ ledBrightnessPreset = 4
    /\ dynamicHue = CRGB(255, 0, 0)
    /\ results = NoCode
    /\ serialIn = NoByte
    /\ trace = <<>>
    /\ audioSample = 0
    /\ statusAtPoll = 1
    /\ displayed = Black
    /\ rippled = <<>>
    /\ glowed = <<>>
    /\ OtherInit

\* loop(), lines 71-93
NextBoot ==
    \/ tick < MaxBootTicks /\ \E code \in Codes : PollBoot(code)
    \/ tick < MaxBootTicks /\ NoSignal
    \/ BootSequence
    \/ Red
    \/ RedDimmed
    \/ \E b \in SerialBytes : MellowVisualizer(b)
    \/ \E b \in SerialBytes : DynamicVisualizer(b)
    \/ VisualizerNoData
    \/ unimplementedModeBoot
    \/ inactive

SpecBoot == InitBoot /\ [][NextBoot]_vars

----------------------------------------------------------------------------
(* The loops, one iteration a step: the counting loop of dynamicHueShift, the
   two loops and the recursion of DynamicHueModifier, the two loops of
   BootSequence, and a visualizer call with no byte waiting.  pc is "idle"
   between operations; tick counts the operations started and trace holds the
   events of the latest one.  A behaviour is one
   power-up of the single-strip sketch with the dynamic visualizer selected,
   or one of the boot sketch. *)

\* in the boot sketch dynamicHue is a CRGB, in the other two a CHSV
BootSketch == "red" \in DOMAIN dynamicHue

\* strengths of the calls started here
LoopStrengths == {0, 17, 255, 300}

InitLoops ==
    /\ pc = "idle"
    /\ tick = 0
    /\ leds = Black
    /\ audioIn = 0
    /\ ledStatus = 1
    /\ ledBrightness = 255
    /\ ledBrightnessPreset = 4
    /\ \/ ledMode = 9 /\ dynamicHue \in {CHSV(0, 255, 255), CHSV(250, 255, 120)}
       \/ ledMode = 10 /\ dynamicHue = CRGB(255, 0, 0)
    /\ results = NoCode
    /\ serialIn = NoByte
    /\ trace = <<>>
    /\ audioSample = 0
    /\ statusAtPoll = 1
    /\ displayed = Black
    /\ rippled = <<>>
    /\ glowed = <<>>
    /\ OtherInit

\* the variables no loop assigns
loopFrame == <<audioIn, ledStatus, ledBrightness, ledBrightnessPreset, results,
               serialIn, audioSample, statusAtPoll, displayed, rippled, glowed, audioSamples,
               received, hueAtStart, hueCall, ledsD, scrollingHue, visSpread,
               accessed>>

\* dynamicHueShift(s) is called: int i = strength
callShift(s) ==
    /\ pc = "idle" /\ ~BootSketch /\ tick < MaxCalls
    /\ pc' = "shift"
    /\ tick' = tick + 1
    /\ loopI' = s
    /\ trace' = <<>>
    /\ UNCHANGED <<leds, ledMode, dynamicHue, dynamicHueCycle, loopStrength,
                   callDepth>>
    /\ UNCHANGED loopFrame

\* (variant) the loop of dynamicHueShift without its i--
shiftStepNoCount ==
    /\ pc = "shift" /\ loopI > 0
    /\ dynamicHue' = [dynamicHue EXCEPT !.hue = IF @ = 255 THEN 0 ELSE @ + 1]
    /\ UNCHANGED <<pc, tick, leds, ledMode, dynamicHueCycle, trace, loopI,
                   loopStrength, callDepth>>
    /\ UNCHANGED loopFrame

\* lines 389-395: one iteration of for (int i = strength; i > 0; i--)
shiftStep ==
    /\ pc = "shift" /\ loopI > 0
    /\ dynamicHue' = [dynamicHue EXCEPT !.hue = IF @ = 255 THEN 0 ELSE @ + 1]
    /\ loopI' = loopI - 1
    /\ UNCHANGED <<pc, tick, leds, ledMode, dynamicHueCycle, trace, loopStrength,
                   callDepth>>
    /\ UNCHANGED loopFrame

\* the loop's test fails: dynamicHueShift returns
shiftReturn ==
    /\ pc = "shift" /\ ~(loopI > 0)
    /\ pc' = "idle"
    /\ UNCHANGED <<tick, leds, ledMode, dynamicHue, dynamicHueCycle, trace, loopI,
                   loopStrength, callDepth>>
    /\ UNCHANGED loopFrame

\* DynamicHueModifier(s) is called
callModifier(s) ==
    /\ pc = "idle" /\ BootSketch /\ tick < MaxCalls
    /\ s <= 255
    /\ pc' = "modifier"
    /\ tick' = tick + 1
    /\ loopStrength' = s
    /\ callDepth' = 1
    /\ trace' = <<>>
    /\ UNCHANGED <<leds, ledMode, dynamicHue, dynamicHueCycle, loopI>>
    /\ UNCHANGED loopFrame

\* part_000 lines 170-191 and 208: source and target are set, and the test of
\* dynamicHue[target] selects the loop
modifierEnter ==
    /\ pc = "modifier"
    /\ pc' = IF Channel(dynamicHue, Target(dynamicHueCycle)) < 255
             THEN "targetLoop" ELSE "sourceLoop"
    /\ UNCHANGED <<tick, leds, ledMode, dynamicHue, dynamicHueCycle, trace, loopI,
                   loopStrength, callDepth>>
    /\ UNCHANGED loopFrame

\* part_000 lines 194-204: one iteration of the first loop; at 255 the
\* function calls itself with strength as it is
targetLoopStep ==
    /\ pc = "targetLoop" /\ loopStrength > 0
    /\ LET t == Target(dynamicHueCycle)
           v == ToByte(Channel(dynamicHue, t) + 1)
       IN  /\ dynamicHue' = SetChannel(dynamicHue, t, v)
           /\ IF v = 255
              THEN pc' = "modifier" /\ callDepth' = callDepth + 1
                   /\ UNCHANGED loopStrength
              ELSE loopStrength' = loopStrength - 1 /\ UNCHANGED <<pc, callDepth>>
    /\ UNCHANGED <<tick, leds, ledMode, dynamicHueCycle, trace, loopI>>
    /\ UNCHANGED loopFrame

\* part_000 lines 211-224: one iteration of the second loop; at 0 the cycle
\* advances and the function calls itself with strength as it is
sourceLoopStep ==
    /\ pc = "sourceLoop" /\ loopStrength > 0
    /\ LET src == Source(dynamicHueCycle)
           v == ToByte(Channel(dynamicHue, src) - 1)
       IN  /\ dynamicHue' = SetChannel(dynamicHue, src, v)
           /\ IF v = 0
              THEN pc' = "modifier" /\ callDepth' = callDepth + 1
                   /\ dynamicHueCycle' = NextCycle(dynamicHueCycle)
                   /\ UNCHANGED loopStrength
              ELSE loopStrength' = loopStrength - 1
                   /\ UNCHANGED <<pc, callDepth, dynamicHueCycle>>
    /\ UNCHANGED <<tick, leds, ledMode, trace, loopI>>
    /\ UNCHANGED loopFrame

\* a loop's test fails: the call returns, and so does each call that made it
\* (its next statement is return;)
modifierReturn ==
    /\ pc \in {"targetLoop", "sourceLoop", "return"}
    /\ pc \in {"targetLoop", "sourceLoop"} => ~(loopStrength > 0)
    /\ callDepth' = callDepth - 1
    /\ pc' = IF callDepth - 1 = 0 THEN "idle" ELSE "return"
    /\ UNCHANGED <<tick, leds, ledMode, dynamicHue, dynamicHueCycle, trace, loopI,
                   loopStrength>>
    /\ UNCHANGED loopFrame

\* BootSequence() is called, by the first iteration of loop() after power-up:
\* Off(); delay(200); int i = 0
callBoot ==
    /\ pc = "idle" /\ BootSketch /\ tick = 0 /\ tick < MaxCalls
    /\ ledStatus = 1 /\ ledMode = 10
    /\ pc' = "ramp"
    /\ tick' = tick + 1
    /\ leds' = Off(leds)
    /\ trace' = <<Ev("clear"), Show(Off(leds))>>
    /\ loopI' = 0
    /\ UNCHANGED <<ledMode, dynamicHue, dynamicHueCycle, loopStrength, callDepth>>
    /\ UNCHANGED loopFrame

\* part_000 lines 239-262: one iteration of for (int i = 0; i < 255; i++)
rampStep ==
    /\ pc = "ramp" /\ loopI < 255
    /\ LET st == RampStep([leds |-> leds, events |-> trace], loopI) IN
       leds' = st.leds /\ trace' = st.events
    /\ loopI' = loopI + 1
    /\ UNCHANGED <<pc, tick, ledMode, dynamicHue, dynamicHueCycle, loopStrength,
                   callDepth>>
    /\ UNCHANGED loopFrame

\* the ramp loop's test fails: the finishing loop begins, int i = 0
rampDone ==
    /\ pc = "ramp" /\ ~(loopI < 255)
    /\ pc' = "finish"
    /\ loopI' = 0
    /\ UNCHANGED <<tick, leds, ledMode, dynamicHue, dynamicHueCycle, trace,
                   loopStrength, callDepth>>
    /\ UNCHANGED loopFrame

\* part_000 lines 265-275: one iteration of for (int i = 0; i < 10; i++)
finishStep ==
    /\ pc = "finish" /\ loopI < 10
    /\ LET st == FinishStep([leds |-> leds, events |-> trace]) IN
       leds' = st.leds /\ trace' = st.events
    /\ loopI' = loopI + 1
    /\ UNCHANGED <<pc, tick, ledMode, dynamicHue, dynamicHueCycle, loopStrength,
                   callDepth>>
    /\ UNCHANGED loopFrame

\* the finishing loop's test fails: ledMode = 0, BootSequence returns
bootReturn ==
    /\ pc = "finish" /\ ~(loopI < 10)
    /\ ledMode' = 0
    /\ pc' = "idle"
    /\ UNCHANGED <<tick, leds, dynamicHue, dynamicHueCycle, trace, loopI,
                   loopStrength, callDepth>>
    /\ UNCHANGED loopFrame

\* dynamicVisualizer() is called: it is at if (Serial.available())
callVisualizer ==
    /\ pc = "idle" /\ ~BootSketch /\ tick < MaxCalls
    /\ ledStatus = 1 /\ ledMode = 9
    /\ pc' = "available"
    /\ tick' = tick + 1
    /\ trace' = <<>>
    /\ UNCHANGED <<leds, ledMode, dynamicHue, dynamicHueCycle>>
    /\ UNCHANGED loopVars
    /\ UNCHANGED loopFrame

\* Serial.available() returns 0: setGlobalBrightness(); FastLED.show(); return
returnNoData ==
    /\ pc = "available"
    /\ ClampAndShow(leds, FALSE)
    /\ pc' = "idle"
    /\ UNCHANGED <<tick, ledMode, dynamicHue, dynamicHueCycle>>
    /\ UNCHANGED loopVars
    /\ UNCHANGED loopFrame

\* the statements a started operation executes
StepLoops ==
    \/ shiftStep
    \/ shiftReturn
    \/ modifierEnter
    \/ targetLoopStep
    \/ sourceLoopStep
    \/ modifierReturn
    \/ rampStep
    \/ rampDone
    \/ finishStep
    \/ bootReturn
    \/ returnNoData

NextLoops ==
    \/ \E s \in LoopStrengths : callShift(s)
    \/ \E s \in LoopStrengths : callModifier(s)
    \/ callBoot
    \/ callVisualizer
    \/ StepLoops

\* the processor executes the next statement of a started operation
SpecLoops == InitLoops /\ [][NextLoops]_vars /\ WF_vars(StepLoops)

----------------------------------------------------------------------------
(* Properties of the dispatcher *)

\* a step of loop() that ran IRHandler on a decoded code
Handled == pc = "poll" /\ pc' = "run" /\ results' # NoCode

\* C1: a decoded code that is no case label of IRHandler's switch turns the
\* LEDs off from every Mode State: ledStatus becomes 0, the buffer is cleared
\* and the black buffer is committed, and ledMode, ledBrightnessPreset and
\* ledBrightness (and the audio level and the hue) keep their values, so the
\* outcome is the same for every such code.
C1_UnlistedCodeIsOff ==
    [][(Handled /\ results' \notin TableCodes)
          => /\ ledStatus' = 0
             /\ leds' = Black
             /\ trace' = <<Ev("clear"), Show(Black)>>
             /\ UNCHANGED <<ledMode, ledBrightnessPreset, ledBrightness,
                            audioIn, dynamicHue>>]_vars

\* C1 witness: a garbled digit-0 code has been handled while the dynamic
\* visualizer was showing a frame lit by audio data.
C1_Witness ==
    /\ pc = "run"
    /\ results = W(255, 26774)
    /\ statusAtPoll = 1
    /\ ledMode = 9
    /\ ledStatus = 0
    /\ audioIn = 255
    /\ leds = Black

\* C2: each digit code N selects mode N and turns the status on, from every
\* Mode State, without touching the brightness preset, the ceiling or the
\* buffer and without a commit; for the implemented modes 0, 8 and 9 the
\* effect dispatch that follows runs the mode (it commits a frame) and leaves
\* the status on.
C2_DigitSelectsMode ==
    [][/\ \A n \in 0 .. 9 :
             (Handled /\ results' = ModeCode[n])
                => /\ ledStatus' = 1
                   /\ ledMode' = n
                   /\ trace' = <<>>
                   /\ UNCHANGED <<ledBrightnessPreset, ledBrightness, leds>>
       /\ \A n \in {0, 8, 9} :
             (pc = "run" /\ pc' = "poll" /\ results = ModeCode[n])
                => /\ ledStatus' = 1
                   /\ ledMode' = n
                   /\ Shows(trace') # <<>>]_vars

\* C2 witness: the LEDs were off, digit 8 was decoded, and the iteration has
\* ended with the mellow visualizer's frame committed and the status on.
C2_Witness ==
    /\ pc = "poll"
    /\ tick = 2
    /\ statusAtPoll = 0
    /\ results = ModeCode[8]
    /\ ledStatus = 1
    /\ ledMode = 8
    /\ Len(Shows(trace)) = 1

\* C3: whenever the status is on, handling any decoded code leaves the status
\* off when IRHandler returns.
C3_AnyCodeWhileOnTurnsOff ==
    [][(Handled /\ ledStatus = 1) => ledStatus' = 0]_vars

\* C4: once a brightness-up or brightness-down code has been handled the
\* status is off and the buffer is black, right after IRHandler and after the
\* effect dispatch of the same iteration.
C4_BrightnessCodeResetsToOff ==
    results \in {ArrowUp, ArrowDown} => (ledStatus = 0 /\ leds = Black)

\* C5: the preset stays in 0..4 and the ceiling is the preset's
\* (5, 20, 65, 127, 255); brightness-up adds one to the preset except at 4,
\* brightness-down takes one off except at 0.
C5_PresetAndCeiling ==
    /\ [](/\ ledBrightnessPreset \in 0 .. 4
          /\ ledBrightness = <<5, 20, 65, 127, 255>>[ledBrightnessPreset + 1])
    /\ [][/\ (Handled /\ results' = W(255, 36975))
                => ledBrightnessPreset' =
                      IF ledBrightnessPreset = 4 THEN 4 ELSE ledBrightnessPreset + 1
          /\ (Handled /\ results' = W(255, 57375))
                => ledBrightnessPreset' =
                      IF ledBrightnessPreset = 0 THEN 0 ELSE ledBrightnessPreset - 1]_vars

\* C5 witness: brightness-down has been handled five times from the initial
\* preset 4, the fifth time at preset 0.
C5_Witness ==
    /\ pc = "run"
    /\ tick = 4
    /\ results = W(255, 57375)
    /\ ledBrightnessPreset = 0
    /\ ledBrightness = 5

\* the ten codes whose case is a bare break: repeat, power, func/stop, EQ,
\* ST/REPT, skip forward, skip back, play/pause, volume up, volume down
BareBreakCodes ==
    {W(65535, 65535), W(255, 41565), W(255, 57885), W(255, 39015), W(255, 45135),
     W(255, 49725), W(255, 8925), W(255, 765), W(255, 25245), W(255, 43095)}

\* C6: handling one of the ten ignored codes changes none of ledStatus,
\* ledMode, ledBrightnessPreset, ledBrightness, the hue, the audio level and
\* the buffer, and commits nothing.
C6_IgnoredCodesChangeNothing ==
    [][(Handled /\ results' \in BareBreakCodes)
          => /\ UNCHANGED <<ledStatus, ledMode, ledBrightnessPreset, ledBrightness,
                            dynamicHue, audioIn, leds>>
             /\ trace' = <<>>]_vars

\* C6 witness: the volume-up code has been handled while the dynamic
\* visualizer was on with a lit buffer, and all of it is still there.
C6_Witness ==
    /\ pc = "run"
    /\ results = W(255, 25245)
    /\ ledStatus = 1
    /\ ledMode = 9
    /\ audioIn = 254
    /\ leds[37] # CRGB(0, 0, 0)
    /\ trace = <<>>

----------------------------------------------------------------------------
(* Properties of the clamp and of the commits *)

\* C7: every FastLED.show() of an iteration comes right after a clamp pass:
\* the event before it in the trace is setGlobalBrightness, not a buffer write
\* and not the start of the iteration.
C7_EveryCommitFollowsClamp ==
    \A k \in 1 .. Len(trace) :
        trace[k].op = "show" => (k > 1 /\ trace[k - 1].op = "clamp")

\* a frame whose ring pixels 0..99 are within the ceiling and whose accent
\* pixels 100..111 are within min(255, 5 * ceiling)
WithinCeilings(frame, lb) ==
    \A i \in Pixels :
        LET cap == IF i < 100 THEN lb ELSE Min(255, lb * 5) IN
        frame[i].red <= cap /\ frame[i].green <= cap /\ frame[i].blue <= cap

\* C8: every frame committed in an iteration is within the current ceilings.
C8_CommitsWithinCeilings ==
    \A k \in 1 .. Len(trace) :
        trace[k].op = "show" => WithinCeilings(trace[k].frame, ledBrightness)

\* min(c, cap) written out
Capped(c, cap) == IF c <= cap THEN c ELSE cap

\* C9: one call of setGlobalBrightness sets each channel of pixels 0..99 to
\* min(channel, ledBrightness) and each channel of pixels 100..111 to
\* min(channel, 5 * ledBrightness) with the product taken in the integers,
\* leaves every channel that was within its ceiling as it was, changes no
\* variable of the program but the buffer, and a second call changes nothing.
C9_ClampIsMinAndIdempotent ==
    [][/\ \A i \in Pixels :
             LET cap == IF i < 100 THEN ledBrightness ELSE 5 * ledBrightness IN
             /\ leds'[i].red = Capped(leds[i].red, cap)
             /\ leds'[i].green = Capped(leds[i].green, cap)
             /\ leds'[i].blue = Capped(leds[i].blue, cap)
       /\ UNCHANGED <<audioIn, ledMode, ledStatus, ledBrightness,
                      ledBrightnessPreset, dynamicHue, audioSample>>
       /\ (tick >= 1 => leds' = leds)]_vars

\* C9 witness: at ceiling 52 (5 * 52 = 260, past eight bits) the clamp has run
\* twice on a buffer holding 255, 100 and 26; ring channels above 52 are at
\* 52 and the accent pixels are as they were.
C9_Witness ==
    /\ pc = "clamp"
    /\ tick = 2
    /\ ledBrightness = 52
    /\ leds[0] = CRGB(52, 52, 26)
    /\ leds[102] = CRGB(255, 100, 26)

\* C10: the stored audio level is min(2 * b, 255) for the raw byte b, in the
\* visualizers' inline doubling and in sampleAudio alike, and a raw byte at
\* least as large as the one before never gives a smaller level.
C10_AudioDoubling ==
    /\ [](serialIn # NoByte
             => /\ audioIn = Min(2 * serialIn, 255)
                /\ audioSample = Min(2 * serialIn, 255))
    /\ [][serialIn' >= serialIn
             => (audioIn' >= audioIn /\ audioSample' >= audioSample)]_vars

\* C10 witness: raw byte 200 has been read and stored as 255.
C10_Witness ==
    /\ serialIn = 200
    /\ audioIn = 255
    /\ audioSample = 255

----------------------------------------------------------------------------
(* Properties of the audio history *)

\* C11: after any sequence of sampleAudio calls audioSamples[0] is the doubled,
\* saturated value of the latest raw byte and audioSamples[i] that of the byte
\* received i calls earlier, 0 where fewer than i + 1 bytes have arrived, and
\* audioSample equals audioSamples[0]; each call moves every entry back by one
\* position, so that only the entry at index 99 is lost.
C11_HistoryOfSamples ==
    /\ [](/\ \A i \in 0 .. 99 :
                audioSamples[i] =
                    IF i < Len(received) THEN Min(2 * received[i + 1], 255) ELSE 0
          /\ audioSample = audioSamples[0])
    /\ [][\A i \in 1 .. 99 : audioSamples'[i] = audioSamples[i - 1]]_vars

\* C11 witness: 102 samples have arrived, the last two of them 128 and 1; the
\* front of the buffer holds 2 and 255, and index 99 holds the doubled third
\* byte of the stream, the first two having been discarded.
C11_Witness ==
    /\ pc = "sample"
    /\ Len(received) = 102
    /\ received[1] = 1 /\ received[2] = 128
    /\ audioSamples[0] = 2 /\ audioSamples[1] = 255
    /\ audioSamples[99] = 222
    /\ audioSample = 2

----------------------------------------------------------------------------
(* Properties of the hue shifter *)

RECURSIVE SumOf(_)
\* the sum of a sequence of numbers
SumOf(seq) == IF seq = <<>> THEN 0 ELSE Head(seq) + SumOf(Tail(seq))

\* C12: after any sequence of dynamicHueShift calls with non-negative
\* strengths of sum S the hue is (hue at the start + S) mod 256 and lies in
\* 0..255, and no call changes the saturation or the value.
C12_HueIsSumModulo256 ==
    /\ [](/\ dynamicHue.hue = (hueAtStart + SumOf(received)) % 256
          /\ dynamicHue.hue \in 0 .. 255)
    /\ [][/\ dynamicHue'.sat = dynamicHue.sat
          /\ dynamicHue'.val = dynamicHue.val]_vars

\* C12 witness: from hue 254, shifts of 300 and 17 (sum 317) have taken the
\* hue twice past 255, to 59.
C12_Witness ==
    /\ pc = "shift"
    /\ hueAtStart = 254
    /\ received = <<17, 300>>
    /\ dynamicHue = CHSV(59, 255, 120)

\* the three channels of a colour
Channels(c) == {c.red, c.green, c.blue}

\* C13: from (255, 0, 0) in phase 0, after every DynamicHueModifier call with
\* a strength in 0..255 the colour has a channel at 0 and a channel at 255,
\* the phase is 0, 1 or 2, and no increment or decrement of the call went
\* past 255 or below 0.
C13_CycleKeepsZeroAndFull ==
    /\ 0 \in Channels(dynamicHue)
    /\ 255 \in Channels(dynamicHue)
    /\ dynamicHueCycle \in 0 .. 2
    /\ ~hueCall.wrapped

\* C13 witness: a call with strength 255 has gone through a handoff into
\* phase 2 (blue to red), where red is rising and blue is still full.
C13_Witness ==
    /\ pc = "modify"
    /\ hueCall.strength = 255
    /\ dynamicHueCycle = 2
    /\ dynamicHue.blue = 255
    /\ dynamicHue.green = 0
    /\ dynamicHue.red \in 1 .. 254

\* C14: a call DynamicHueModifier(strength) makes exactly strength single
\* channel steps (increments of the target plus decrements of the source,
\* over its recursive calls and handoffs).
C14_CallConsumesStrength == hueCall.steps = hueCall.strength

----------------------------------------------------------------------------
(* Properties of the visualizers *)

\* a step of loop() that ran a visualizer with a byte read from the serial link
TickWithData ==
    pc = "run" /\ pc' = "poll" /\ ledMode \in {8, 9} /\ serialIn' # NoByte

\* a step of loop() that ran a visualizer with no byte on the serial link
TickWithoutData ==
    pc = "run" /\ pc' = "poll" /\ ledStatus = 1 /\ ledMode \in {8, 9}
               /\ serialIn' = NoByte

\* C15: the ripple step of a visualizer tick with data is an outward shift
\* about pixel 37 over 0..74: new pixel i is the old pixel i + 1 for i in
\* 0..36 and the old pixel i - 1 for i in 38..74, so every old pixel 1..73
\* lands on one position of its side (the centre's on both) and only the old
\* pixels 0 and 74 are lost; pixel 37 and pixels 75..111 are as they were.
C15_RippleIsOutwardShift ==
    [][TickWithData
          => /\ \A i \in 0 .. 36 : rippled'[i] = leds[i + 1]
             /\ \A i \in 38 .. 74 : rippled'[i] = leds[i - 1]
             /\ \A i \in {37} \cup (75 .. 111) : rippled'[i] = leds[i]]_vars

\* C15 witness: a dynamic-visualizer tick has shifted a buffer whose colours
\* had reached both boundaries: after the shift pixels 0, 1, 73 and 74 are lit
\* and the boundary pixels differ from their inner neighbours.
C15_Witness ==
    /\ pc = "poll"
    /\ ledMode = 9
    /\ rippled # <<>>
    /\ rippled[0] # CRGB(0, 0, 0) /\ rippled[1] # CRGB(0, 0, 0)
    /\ rippled[0] # rippled[1]
    /\ rippled[74] # CRGB(0, 0, 0) /\ rippled[73] # CRGB(0, 0, 0)
    /\ rippled[74] # rippled[73]

\* C16: a visualizer tick with no byte on the serial link ends at once, keeps
\* the audio level and the hue, runs no ripple, centre write or glow update,
\* and commits the buffer after one clamp pass; a buffer that was within the
\* ceilings is committed as it was.
C16_TickWithoutDataRecommits ==
    [][TickWithoutData
          => /\ UNCHANGED <<audioIn, dynamicHue>>
             /\ rippled' = <<>> /\ glowed' = <<>>
             /\ \A i \in Pixels :
                   LET cap == IF i < 100 THEN ledBrightness
                              ELSE Min(255, 5 * ledBrightness) IN
                   /\ leds'[i].red = Capped(leds[i].red, cap)
                   /\ leds'[i].green = Capped(leds[i].green, cap)
                   /\ leds'[i].blue = Capped(leds[i].blue, cap)
             /\ trace' = trace \o <<Ev("clamp"), Show(leds')>>
             /\ (WithinCeilings(leds, ledBrightness) => leds' = leds)]_vars

\* C16 witness: with the dynamic visualizer's colours on the strip from centre
\* to boundary and the glow zone lit, an iteration has passed with no byte:
\* one clamp, one commit, the buffer still lit.
C16_Witness ==
    /\ pc = "poll"
    /\ tick = 1
    /\ ledMode = 9
    /\ serialIn = NoByte
    /\ trace = <<Ev("clamp"), Show(leds)>>
    /\ leds[0] # CRGB(0, 0, 0)
    /\ leds[37] # CRGB(0, 0, 0)
    /\ leds[80] # CRGB(0, 0, 0)

\* C17: with the status on and a mode of 1..7 selected, the effect dispatch
\* sets the status to off, runs no effect (no buffer write, no clamp, no
\* commit, no change of level or hue) and keeps ledMode; from then on the
\* status goes from off to on only when a digit code is handled.
C17_UnimplementedModeTurnsOff ==
    [][/\ (pc = "run" /\ ledStatus = 1 /\ ledMode \in 1 .. 7)
             => /\ ledStatus' = 0
                /\ pc' = "poll"
                /\ trace' = trace
                /\ UNCHANGED <<ledMode, leds, audioIn, dynamicHue, ledBrightness,
                               ledBrightnessPreset>>
       /\ (ledStatus = 0 /\ ledStatus' # 0)
             => (Handled /\ results' \in ModeCodes)]_vars

\* C17 witness: digit 5 was handled in the first iteration, whose dispatch
\* turned the status off; the second iteration, with no code, has left it off
\* and the mode at 5.
C17_Witness ==
    /\ pc = "poll"
    /\ tick = 2
    /\ ledMode = 5
    /\ ledStatus = 0
    /\ statusAtPoll = 0
    /\ results = NoCode
    /\ trace = <<>>

----------------------------------------------------------------------------
(* Properties of the boot sketch *)

\* C18: in the boot sketch BootSequence returns with ledMode 0 (static red)
\* and the status on, and once ledMode is not 10 no remote code, serial byte
\* or loop tick makes it 10 again, so BootSequence runs at most once.
C18_BootIsNotReentered ==
    [][/\ (pc = "run" /\ ledStatus = 1 /\ ledMode = 10)
             => (ledMode' = 0 /\ ledStatus' = 1)
       /\ (ledMode # 10 => ledMode' # 10)]_vars

\* C18 witness: BootSequence ran in the first iteration (its 266 commits are
\* that iteration's), and a second iteration has run Red with mode 0.
C18_Witness ==
    /\ pc = "poll"
    /\ tick = 2
    /\ ledMode = 0
    /\ ledStatus = 1
    /\ results = NoCode
    /\ leds[0] = CRGB(255, 0, 0)
    /\ Len(Shows(trace)) = 1

\* C20: on a visualizer tick with data and normalised level a, every pixel
\* of the glow zone 75..111 gets red' = max(0, min(255, red + a div 5) - 8)
\* before the clamp, its green and blue stay as they were, and no channel
\* leaves 0..255; a raw byte 200 gives a = 255, so the pixel receives +51,
\* saturating, then -8.
C20_GlowIsSaturatingArithmetic ==
    [][TickWithData
          => /\ \A i \in 75 .. 111 :
                   LET raised == IF leds[i].red + (audioIn' \div 5) > 255 THEN 255
                                 ELSE leds[i].red + (audioIn' \div 5)
                   IN  /\ glowed'[i].red = (IF raised - 8 < 0 THEN 0 ELSE raised - 8)
                       /\ glowed'[i].green = leds[i].green
                       /\ glowed'[i].blue = leds[i].blue
                       /\ glowed'[i].red \in Byte
                       /\ glowed'[i].green \in Byte
                       /\ glowed'[i].blue \in Byte
             /\ (serialIn' = 200
                    => /\ audioIn' = 255
                       /\ \A i \in 75 .. 111 :
                             glowed'[i].red
                                = (IF leds[i].red + 51 > 255 THEN 255
                                   ELSE leds[i].red + 51) - 8)]_vars

\* C20 witness: a tick with the raw byte 200 has run on a lit glow zone: the
\* level is 255 and pixel 75, which was above 204, saturated at 255 and was
\* lowered to 247.
C20_Witness ==
    /\ pc = "poll"
    /\ ledMode \in {8, 9}
    /\ serialIn = 200
    /\ audioIn = 255
    /\ glowed # <<>>
    /\ glowed[75].red = 247

----------------------------------------------------------------------------
(* Termination *)

\* C19: every operation that has started returns: the counting loop of
\* dynamicHueShift for any strength, the loops and the recursion of
\* DynamicHueModifier for any strength in 0..255, the two loops of
\* BootSequence, and a visualizer call with no byte waiting.
C19_EveryOperationReturns == (pc # "idle") ~> (pc = "idle")

\* C19 witness: two calls DynamicHueModifier(255) have returned; the second
\* went through both handoffs, three calls deep, and left (0, 255, 2) in
\* phase 1.
C19_Witness ==
    /\ pc = "idle"
    /\ tick = 2
    /\ loopStrength = 0
    /\ callDepth = 0
    /\ dynamicHueCycle = 1
    /\ dynamicHue = CRGB(0, 255, 2)

----------------------------------------------------------------------------
(* Properties of the boot sketch *)

\* an iteration of loop() in which BootSequence ran
BootReturns ==
    pc = "run" /\ pc' = "poll" /\ ledStatus = 1 /\ ledMode = 10

\* C21: when BootSequence returns, the ramp has taken red from 0 to 255 on
\* every pixel of the ring 0..99 and of the accent zone 100..111: every pixel
\* of the strip is (255, 0, 0).
C21_BootEndsAllRed ==
    [][BootReturns => \A i \in Pixels : leds'[i] = CRGB(255, 0, 0)]_vars

----------------------------------------------------------------------------
(* Properties of the static red mode *)

\* an iteration of loop() in which red() ran
RedTick ==
    pc = "run" /\ pc' = "poll" /\ ledStatus = 1 /\ ledMode = 0

\* the flat red colour under the ceilings of brightness lb
FlatRed(lb) ==
    [i \in Pixels |->
        IF i < 100 THEN CRGB(Min(255, lb), 0, 0) ELSE CRGB(Min(255, lb * 5), 0, 0)]

\* C22: after every iteration that runs the static red mode, whatever mode,
\* buffer and preset preceded it, every ring pixel 0..99 is
\* (min(255, ledBrightness), 0, 0) and every accent pixel 100..111 is
\* (min(255, ledBrightness * 5), 0, 0).
C22_RedTickLeavesFlatRed ==
    [][RedTick => leds' = FlatRed(ledBrightness)]_vars

\* the events of the list tr that are buffer writes
Writes(tr) == SelectSeq(tr, LAMBDA e : e.op = "write")

\* the first iteration after power-up, with no code decoded, runs red()
FirstRedTick == RedTick /\ tick = 0 /\ results = NoCode

\* red() runs in an iteration with no code decoded, the iteration before
\* having run it too (nothing else leaves status 1 and mode 0)
LaterRedTick == RedTick /\ tick > 0 /\ results = NoCode

\* C23: in static red mode the buffer is rewritten once per activation: the
\* first tick writes the flat colour, and on every later consecutive tick the
\* test of pixel 0 skips the rewrite, at every brightness preset 0..4.
C23_RedRewritesOncePerActivation ==
    [][/\ FirstRedTick => Writes(trace') # <<>>
       /\ LaterRedTick => Writes(trace') = <<>>]_vars

----------------------------------------------------------------------------
(* Properties of the off state *)

\* the frame on the strip now
Committed == Latest(trace, displayed)

\* C24: whenever the status is off at the end of an iteration of loop()
\* (after an unrecognised code, a brightness adjustment or the fallback for an
\* unimplemented mode), the LEDs are off: the frame committed last is black.
C24_StatusOffMeansDark ==
    (pc = "poll" /\ ledStatus = 0) => Committed = Black

\* C25: while the status is off and no remote code is decoded, an iteration
\* of loop() calls FastLED.show() not once, reads no serial byte, and leaves
\* the pixel buffer, the audio level, the hue and the mode, status and
\* brightness as they were.
C25_OffTickTouchesNothing ==
    [][(ledStatus = 0 /\ results' = NoCode)
          => /\ Shows(trace') = <<>>
             /\ serialIn' = NoByte
             /\ UNCHANGED <<leds, audioIn, dynamicHue, ledMode, ledStatus,
                            ledBrightness, ledBrightnessPreset>>]_vars

\* C25 witness: an unrecognised code turned the strip off in the first
\* iteration; the second, with no code, has ended with the status still off,
\* nothing committed and no byte read.
C25_Witness ==
    /\ pc = "poll"
    /\ tick = 2
    /\ ledStatus = 0
    /\ statusAtPoll = 0
    /\ ledMode = 0
    /\ results = NoCode
    /\ serialIn = NoByte
    /\ trace = <<>>
    /\ Committed = Black

----------------------------------------------------------------------------
(* Properties of the hue state *)

\* C26 as stated: dynamicHue is changed only by the step function
\* dynamicHueShift, which steps the hue; no effect routine assigns a field of
\* it directly.
C26_HueStateOnlyShifted ==
    [][\E strength \in 0 .. 255 :
          dynamicHue' = dynamicHueShift(dynamicHue, strength)]_vars

\* C26 as amended: dynamicHue is changed only by dynamicVisualizer on a tick
\* with data: its hue through dynamicHueShift alone, its saturation never,
\* and its value by the direct assignment dynamicHue.val = audioIn; red and
\* mellowVisualizer assign no field of it.
C26_HueStateWrittenByVisualizer ==
    [][/\ dynamicHue'.sat = dynamicHue.sat
       /\ dynamicHue' # dynamicHue => (TickWithData /\ ledMode = 9)
       /\ (TickWithData /\ ledMode = 9)
             => /\ \E strength \in 0 .. 255 :
                      dynamicHue'.hue = dynamicHueShift(dynamicHue, strength).hue
                /\ dynamicHue'.val = audioIn']_vars

\* C26 witness: a dynamic-visualizer tick with the raw byte 60 has stepped
\* the hue from 0 to 1 and set the value, which was 255, to the level 120.
C26_Witness ==
    /\ pc = "poll"
    /\ ledMode = 9
    /\ serialIn = 60
    /\ audioIn = 120
    /\ dynamicHue = CHSV(1, 255, 120)

\* the same in the two-strip sketch: caseVisualizer alone changes dynamicHue,
\* on a tick with data, the hue through dynamicHueShift and the value by the
\* assignment dynamicHue.val = audioSample; its red and deskVisualizer assign
\* no field of it.
HueStateWrittenByCaseVisualizer ==
    [][/\ dynamicHue'.sat = dynamicHue.sat
       /\ dynamicHue' # dynamicHue => (TickWithData /\ ledMode = 8)
       /\ (TickWithData /\ ledMode = 8)
             => /\ \E strength \in 0 .. 255 :
                      dynamicHue'.hue = dynamicHueShift(dynamicHue, strength).hue
                /\ dynamicHue'.val = audioSample']_vars

----------------------------------------------------------------------------
(* Properties of the order within one iteration *)

\* a step that ends an iteration of loop()
IterationEnds == pc' = "poll" /\ tick' = tick + 1

\* C27: the IR poll runs before the effect dispatch of the same iteration: an
\* iteration in which the digit of an implemented mode was decoded ends with
\* that mode's effect run (red: one commit and no serial read; the mellow
\* visualizer: on data the centre's red written, the hue state kept; the
\* dynamic visualizer: on data the centre written from the hue state), and
\* an iteration in which an unrecognised code was decoded runs no effect
\* routine: its only commit is the black one of off().
C27_PollRunsBeforeEffect ==
    [][IterationEnds
          => /\ results' = ModeCode[0]
                   => /\ ledMode' = 0 /\ ledStatus' = 1
                      /\ Len(Shows(trace')) = 1
                      /\ Latest(trace', displayed) = leds'
                      /\ serialIn' = NoByte /\ rippled' = <<>>
                      /\ UNCHANGED <<audioIn, dynamicHue>>
             /\ results' = ModeCode[8]
                   => /\ ledMode' = 8 /\ ledStatus' = 1
                      /\ Len(Shows(trace')) = 1
                      /\ Latest(trace', displayed) = leds'
                      /\ UNCHANGED dynamicHue
                      /\ serialIn' # NoByte
                            => /\ rippled' # <<>>
                               /\ glowed'[37] = [rippled'[37] EXCEPT !.red = audioIn']
             /\ results' = ModeCode[9]
                   => /\ ledMode' = 9 /\ ledStatus' = 1
                      /\ Len(Shows(trace')) = 1
                      /\ Latest(trace', displayed) = leds'
                      /\ serialIn' # NoByte
                            => /\ rippled' # <<>>
                               /\ dynamicHue'.val = audioIn'
                               /\ glowed'[37] = hsv2rgb_rainbow(dynamicHue')
             /\ (results' # NoCode /\ results' \notin TableCodes)
                   => /\ ledStatus' = 0
                      /\ trace' = <<Ev("clear"), Show(Black)>>
                      /\ serialIn' = NoByte
                      /\ rippled' = <<>> /\ glowed' = <<>>]_vars

\* C27 witness: the first iteration showed red; in the second digit 9 was
\* decoded and the same iteration has run the dynamic visualizer on the raw
\* byte 200: the strip went from the red frame to the visualizer's.
C27_Witness ==
    /\ pc = "poll"
    /\ tick = 2
    /\ results = ModeCode[9]
    /\ ledMode = 9
    /\ serialIn = 200
    /\ rippled # <<>>
    /\ displayed = FlatRed(255)
    /\ Committed = leds
    /\ leds[37] # CRGB(255, 0, 0)

\* C28: on a dynamicVisualizer tick with data and level a the hue advances
\* by a div 15 when a > 200 and by a div 70 otherwise (modulo 256), the value
\* field is then a, and pixel 37 is written from that hue state; the step is
\* non-decreasing in a over 0..255; on a mellowVisualizer tick with data only
\* the red channel of pixel 37 is written, with a.
C28_HueStepFollowsLevel ==
    /\ [](\A a \in Byte, b \in Byte : a <= b => HueStrength(a) <= HueStrength(b))
    /\ [][TickWithData
             => /\ ledMode = 9
                   => /\ dynamicHue'.hue
                            = (dynamicHue.hue
                                  + (IF audioIn' > 200 THEN audioIn' \div 15
                                     ELSE audioIn' \div 70)) % 256
                      /\ dynamicHue'.sat = dynamicHue.sat
                      /\ dynamicHue'.val = audioIn'
                      /\ glowed'[37] = hsv2rgb_rainbow(dynamicHue')
                /\ ledMode = 8
                   => /\ glowed'[37].red = audioIn'
                      /\ glowed'[37].green = leds[37].green
                      /\ glowed'[37].blue = leds[37].blue
                      /\ UNCHANGED dynamicHue]_vars

\* C28 witness: a dynamic-visualizer tick with the raw byte 200 has run from
\* the initial hue: the level is 255, the hue went from 0 to 17, and pixel 37
\* holds the colour of (17, 255, 255) ahead of the clamp.
C28_Witness ==
    /\ pc = "poll"
    /\ ledMode = 9
    /\ serialIn = 200
    /\ audioIn = 255
    /\ dynamicHue = CHSV(17, 255, 255)
    /\ glowed # <<>>
    /\ glowed[37] = hsv2rgb_rainbow(CHSV(17, 255, 255))

----------------------------------------------------------------------------
(* Properties of the GPU pixels of the boot sketch *)

\* the GPU pixels, lines 250, 267, 303, 335
AccentPixels == 100 .. 111

\* an iteration of loop() in which a visualizer of the boot sketch read a byte
VisualizerTickBoot ==
    pc = "run" /\ pc' = "poll" /\ ledStatus = 1 /\ ledMode \in {8, 9}
               /\ serialIn' # NoByte

\* C29: in the boot sketch the GPU pixels 100..111 hold one red value in the
\* buffer and in every frame a visualizer shows, and no add or subtract on a
\* red channel wraps: the ramp of the boot sequence ends at the number of its
\* increments (255 on the back pixels, 254 on the GPU pixels), a visualizer
\* shows every GPU pixel at its old red plus a div 5, or at 255 when that sum
\* passes 255, and leaves it 8 lower than shown, or at 0 when it showed less
\* than 8.
C29_AccentsEqualAndNeverWrap ==
    /\ [](\A i \in AccentPixels :
             /\ leds[i].red = leds[100].red
             /\ glowed # <<>> => glowed[i].red = glowed[100].red)
    /\ [][/\ BootReturns
             => /\ \A j \in 0 .. 98 : leds'[j].red = 255
                /\ \A j \in AccentPixels : leds'[j].red = 254
          /\ VisualizerTickBoot
             => \A i \in AccentPixels :
                   /\ glowed'[i].red
                         = (IF leds[i].red + (audioIn' \div 5) <= 255
                            THEN leds[i].red + (audioIn' \div 5) ELSE 255)
                   /\ leds'[i].red
                         = (IF glowed'[i].red < 8 THEN 0
                            ELSE glowed'[i].red - 8)]_vars

\* C29 witness: after the boot sequence and the power key, MellowVisualizer
\* read a silent byte with the GPU pixels at 0: the add left them at 0, the
\* subtract was skipped, and they are still 0.
C29_Witness ==
    /\ pc = "poll"
    /\ tick = 3
    /\ ledMode = 8
    /\ ledStatus = 1
    /\ serialIn = 0
    /\ audioIn = 0
    /\ glowed # <<>>
    /\ \A i \in AccentPixels : glowed[i].red = 0 /\ leds[i].red = 0

\* a visualizer of the boot sketch showed the GPU pixels at 255 because the
\* sum of 254 and a div 5 passes 255, and left them at 247
AccentsClippedAtTop ==
    /\ pc = "poll"
    /\ ledMode \in {8, 9}
    /\ serialIn = 60
    /\ glowed # <<>>
    /\ \A i \in AccentPixels : glowed[i].red = 255 /\ leds[i].red = 247

----------------------------------------------------------------------------
(* Properties of the array accesses of the two-strip sketch *)

\* the indices of the array of that name
IndicesOf(array) ==
    CASE array = "ledsC" -> DOMAIN leds
      [] array = "ledsD" -> DOMAIN ledsD
      [] array = "audioSamples" -> DOMAIN audioSamples

\* C30: every array element an effect routine of the two-strip sketch reads
\* or writes is inside its array (the case buffer 0..111, the desk buffer
\* 0..90, audioSamples 0..99), and the integer part of visSpread stays below
\* 45, so the indices 45 + k and 45 - k of deskVisualizer are inside 0..90.
C30_IndicesInsideArrays ==
    /\ \A e \in accessed : e[2] \in IndicesOf(e[1])
    /\ DOMAIN leds = 0 .. 111
    /\ DOMAIN ledsD = 0 .. 90
    /\ DOMAIN audioSamples = 0 .. 99
    /\ visSpread >= 0
    /\ IntPart(visSpread) < 45
    /\ 45 + IntPart(visSpread) \in DOMAIN ledsD
    /\ 45 - IntPart(visSpread) \in DOMAIN ledsD

\* C30 witness: deskVisualizer read the raw byte 200: the sample is 255, the
\* spread is 255/5.7 with integer part 44, and the edge writes used the
\* elements 89 and 1 of the desk buffer.
C30_Witness ==
    /\ pc = "poll"
    /\ ledMode = 9
    /\ serialIn = 200
    /\ audioSample = 255
    /\ IntPart(visSpread) = 44
    /\ <<"ledsD", 89>> \in accessed
    /\ <<"ledsD", 1>> \in accessed
    /\ <<"audioSamples", 99>> \in accessed

====
